---- MODULE Spec2Model ----
(***************************************************************************)
(* Session / authentication core of the user-management service:           *)
(* the token codec and session store of utils/sessionManager.js and the    *)
(* authentication gate of middleware/auth.js, over one relational store.   *)
(* Every store query is one atomic step; the code between two awaits runs  *)
(* together with the query that precedes it.                               *)
(***************************************************************************)
EXTENDS Integers, Sequences, FiniteSets, TLC

\* ------------------------------------------------------------------ bounds
MaxSessions == 2
MaxTicks == 2
MaxRandom == 3

Users == {1, 2}
DeviceIds == {"devA"}
Reqs == {1, 2}

\* ------------------------------------------------------------ JS / SQL values
Undefined == "undefined"
EmptyString == ""
SqlNull == "<NULL>"

\* variant: the empty string counts as a value
FalsyButEmptyString(v) == v \in {Undefined, SqlNull}

Falsy(v) == v \in {Undefined, EmptyString, SqlNull}

\* a || b
JsOr(a, b) == IF Falsy(a) THEN b ELSE a

\* variant: a NULL column matches every parameter
SqlEqNullMatches(col, param) == col = SqlNull \/ col = param

\* SQL "col = $n": never true when either side is NULL
SqlEq(col, param) == col # SqlNull /\ param # SqlNull /\ col = param

\* ------------------------------------------------------------ configuration
\* process.env as read when the module is loaded: the two duration settings,
\* <<>> for one that is not set or empty
VARIABLE env

DefaultEnv == [ACCESS_TOKEN_EXPIRY |-> <<>>, REFRESH_TOKEN_EXPIRY |-> <<>>]

JWT_SECRET == "good"
ACCESS_TOKEN_EXPIRY ==
    IF env.ACCESS_TOKEN_EXPIRY = <<>> THEN <<"1", "m">> ELSE env.ACCESS_TOKEN_EXPIRY
REFRESH_TOKEN_EXPIRY ==
    IF env.REFRESH_TOKEN_EXPIRY = <<>> THEN <<"2", "m">> ELSE env.REFRESH_TOKEN_EXPIRY

Digits == <<"0", "1", "2", "3", "4", "5", "6", "7", "8", "9">>
IsDigit(c) == \E i \in 1..10 : Digits[i] = c
DigitVal(c) == (CHOOSE i \in 1..10 : Digits[i] = c) - 1

RECURSIVE ParseInt(_)
ParseInt(ds) ==
    IF ds = <<>> THEN 0
    ELSE 10 * ParseInt(SubSeq(ds, 1, Len(ds) - 1)) + DigitVal(ds[Len(ds)])

\* variant: /^(\d*)([smhd])$/
ExpiryMatchesNoDigit(expiry) ==
    /\ Len(expiry) >= 1
    /\ \A i \in 1..(Len(expiry) - 1) : IsDigit(expiry[i])
    /\ expiry[Len(expiry)] \in {"s", "m", "h", "d"}

\* /^(\d+)([smhd])$/
ExpiryMatches(expiry) ==
    /\ Len(expiry) >= 2
    /\ \A i \in 1..(Len(expiry) - 1) : IsDigit(expiry[i])
    /\ expiry[Len(expiry)] \in {"s", "m", "h", "d"}

\* throw new Error('Invalid expiry format')
InvalidExpiry == "Invalid expiry format"

parseExpiryToSeconds(expiry) ==
    IF ~ExpiryMatches(expiry) THEN InvalidExpiry
    ELSE LET value == ParseInt(SubSeq(expiry, 1, Len(expiry) - 1))
             unit == expiry[Len(expiry)]
         IN CASE unit = "s" -> value
              [] unit = "m" -> value * 60
              [] unit = "h" -> value * 3600
              [] unit = "d" -> value * 86400

\* ------------------------------------------------------------ token codec
\* An access token is a signed JWT: the same payload signed with the same
\* secret in the same second is the same token.
NoClaims == [userId |-> 0, userType |-> Undefined, adminRole |-> Undefined]

Jwt(payload, iat, exp, sig) ==
    [kind |-> "jwt", userId |-> payload.userId, userType |-> payload.userType,
     adminRole |-> payload.adminRole, iat |-> iat, exp |-> exp, sig |-> sig]

NonJwt(kind) ==
    [kind |-> kind, userId |-> 0, userType |-> Undefined, adminRole |-> Undefined,
     iat |-> 0, exp |-> 0, sig |-> ""]

UndefinedToken == NonJwt("undefined")
EmptyToken == NonJwt("empty")
GarbageToken == NonJwt("garbage")
SchemeWord == NonJwt("scheme")

IsFalsyToken(t) == t.kind \in {"undefined", "empty"}

generateAccessToken(payload, t) ==
    Jwt(payload, t, t + parseExpiryToSeconds(ACCESS_TOKEN_EXPIRY), JWT_SECRET)

generateRefreshToken(n) == "rt" \o ToString(n)

\* variant: a token counts as expired from the second it is signed in
verifyExpiredFromIssue(token, t) ==
    IF token.kind # "jwt"
      THEN [ok |-> FALSE, name |-> "JsonWebTokenError", decoded |-> NoClaims]
    ELSE IF token.sig # JWT_SECRET
      THEN [ok |-> FALSE, name |-> "JsonWebTokenError", decoded |-> NoClaims]
    ELSE IF t >= token.iat
      THEN [ok |-> FALSE, name |-> "TokenExpiredError", decoded |-> NoClaims]
    ELSE [ok |-> TRUE, name |-> "",
          decoded |-> [userId |-> token.userId, userType |-> token.userType,
                       adminRole |-> token.adminRole]]

\* variant: expiry is looked at before the signature
verifyExpiryFirst(token, t) ==
    IF token.kind # "jwt"
      THEN [ok |-> FALSE, name |-> "JsonWebTokenError", decoded |-> NoClaims]
    ELSE IF t >= token.exp
      THEN [ok |-> FALSE, name |-> "TokenExpiredError", decoded |-> NoClaims]
    ELSE IF token.sig # JWT_SECRET
      THEN [ok |-> FALSE, name |-> "JsonWebTokenError", decoded |-> NoClaims]
    ELSE [ok |-> TRUE, name |-> "",
          decoded |-> [userId |-> token.userId, userType |-> token.userType,
                       adminRole |-> token.adminRole]]

\* jwt.verify: malformed, then signature, then expiry
verifyAccessToken(token, t) ==
    IF token.kind # "jwt"
      THEN [ok |-> FALSE, name |-> "JsonWebTokenError", decoded |-> NoClaims]
    ELSE IF token.sig # JWT_SECRET
      THEN [ok |-> FALSE, name |-> "JsonWebTokenError", decoded |-> NoClaims]
    ELSE IF t >= token.exp
      THEN [ok |-> FALSE, name |-> "TokenExpiredError", decoded |-> NoClaims]
    ELSE [ok |-> TRUE, name |-> "",
          decoded |-> [userId |-> token.userId, userType |-> token.userType,
                       adminRole |-> token.adminRole]]

\* ------------------------------------------------------------------ state
VARIABLES
    now,        \* the clock read by jwt and by the store's NOW(), in seconds
    profiles,   \* vottery_user_management: user id -> role columns
    sessions,   \* vottery_sessions: sequence of rows, row id = index
    rng,        \* number of values drawn from crypto.randomBytes / randomUUID
    issued,     \* access tokens signed so far
    pc,         \* position of each gate request
    req,        \* locals, response and request decorations of each gate request,
                \* and what was true of the store when the request read it
    hist,       \* record of past rotations and invalidations
    keys,       \* vottery_biometric_keys: sequence of rows
    questions,  \* vottery_security_questions: sequence of rows, row id = index
    out         \* what the last operation called outside the gate was given
                \* and what it returned or threw

vars == <<env, now, profiles, sessions, rng, issued, pc, req, hist, keys, questions, out>>

\* the state of the session core, and the state of the challenge protocol
gateVars == <<env, now, profiles, sessions, rng, issued, pc, req, hist>>
challengeVars == <<keys, questions>>

NoCall == [op |-> "none"]

NoProfile == [exists |-> FALSE, user_type |-> SqlNull, admin_role |-> SqlNull]

IdleReq ==
    [accessToken |-> UndefinedToken, refreshToken |-> Undefined, deviceId |-> Undefined,
     decoded |-> NoClaims, activeAccessToken |-> UndefinedToken, tokenRotated |-> FALSE,
     sessionId |-> 0, newAccessToken |-> UndefinedToken, newRefreshToken |-> Undefined,
     newJwtTokenId |-> 0,
     xAccessToken |-> UndefinedToken, xRefreshToken |-> Undefined,
     status |-> 0, code |-> "", message |-> "",
     user |-> NoClaims, reqTokenRotated |-> FALSE, nextCalled |-> FALSE,
     queries |-> 0, fault |-> FALSE,
     presented |-> UndefinedToken, pair |-> "absent", startedAt |-> 0,
     matchAtSelect |-> "none", missCause |-> "none", pairPersisted |-> "none", rotatedAt |-> 0,
     rowAtCheck |-> "none", rowAtUpdate |-> "none",
     oldAccess |-> FALSE, oldRefresh |-> FALSE,
     invalidatedAccess |-> FALSE, invalidatedRefresh |-> FALSE]

Init ==
    /\ env = DefaultEnv
    /\ now = 0
    /\ profiles = [u \in Users |-> NoProfile]
    /\ sessions = <<>>
    /\ rng = 0
    /\ issued = {}
    /\ pc = [r \in Reqs |-> "idle"]
    /\ req = [r \in Reqs |-> IdleReq]
    /\ hist = [retired |-> {}, invalidatedRows |-> {}]
    /\ keys = <<>>
    /\ questions = <<>>
    /\ out = NoCall

RowIds == 1..Len(sessions)

\* What a request could observe of the store, stated on the rows themselves.
UsableRefreshRow(i, refreshToken, deviceId) ==
    /\ sessions[i].is_active
    /\ sessions[i].refresh_expires_at > now
    /\ sessions[i].refresh_token = refreshToken
    /\ sessions[i].device_id = deviceId

LiveAccessRow(i, accessToken) ==
    /\ sessions[i].is_active
    /\ sessions[i].expires_at > now
    /\ sessions[i].session_token = accessToken

Observed(found) == IF found THEN "found" ELSE "missing"

\* the token after the scheme word of an Authorization header, if any
TokenSent(authHeader) ==
    IF authHeader = <<>> \/ Len(authHeader) = 1 THEN UndefinedToken ELSE authHeader[2]

Absent(v) == v = Undefined \/ v = EmptyString

\* the refresh token and device id a request carries: "absent" when one is
\* missing, "usable" when a row would accept them now, "given" otherwise
PairSent(refreshToken, deviceId) ==
    IF Absent(refreshToken) \/ Absent(deviceId) THEN "absent"
    ELSE IF \E i \in RowIds : UsableRefreshRow(i, refreshToken, deviceId) THEN "usable"
    ELSE "given"

\* the values the validators accept for the role columns
UserTypes == {"voter", "individual_creator"}
AdminRoles == {"analyst", "admin"}

\* why no row accepts a refresh token and device id now: the session holding
\* them is inactive, or past its refresh-expiry, or no session holds the
\* token with that device, or no session holds the token at all
MissCause(refreshToken, deviceId) ==
    LET held == {i \in RowIds : sessions[i].refresh_token = refreshToken}
        bound == {i \in held : sessions[i].device_id = deviceId}
    IN IF \E i \in RowIds : UsableRefreshRow(i, refreshToken, deviceId) THEN "none"
       ELSE IF \E i \in bound : ~sessions[i].is_active THEN "inactive"
       ELSE IF bound # {} THEN "expired"
       ELSE IF held # {} THEN "device"
       ELSE "token"

\* ------------------------------------------------------------ session store
\* createUserProfile: returns the existing row, inserts one otherwise
\* variant: an existing profile row is overwritten
createUserProfileUpsert(P, u, userType, adminRole) ==
    [P EXCEPT ![u] = [exists |-> TRUE, user_type |-> userType, admin_role |-> adminRole]]

createUserProfile(P, u, userType, adminRole) ==
    IF P[u].exists THEN P
    ELSE [P EXCEPT ![u] = [exists |-> TRUE, user_type |-> userType, admin_role |-> adminRole]]

\* createSession's INSERT
InsertSession(S, userId, accessToken, refreshToken, jwtTokenId, deviceId, ip, ua, prof, t) ==
    Append(S, [id |-> Len(S) + 1,
               user_id |-> userId,
               session_token |-> accessToken,
               refresh_token |-> refreshToken,
               jwt_token_id |-> jwtTokenId,
               device_id |-> IF Falsy(deviceId) THEN SqlNull ELSE deviceId,
               ip_address |-> IF Falsy(ip) THEN SqlNull ELSE ip,
               user_agent |-> IF Falsy(ua) THEN SqlNull ELSE ua,
               user_type |-> prof.user_type,
               admin_role |-> prof.admin_role,
               is_active |-> TRUE,
               created_at |-> t,
               expires_at |-> t + parseExpiryToSeconds(ACCESS_TOKEN_EXPIRY),
               refresh_expires_at |-> t + parseExpiryToSeconds(REFRESH_TOKEN_EXPIRY),
               last_activity |-> t])

\* variant: the row is inserted without looking the user up
createSessionNoLookup(S, P, userId, accessToken, refreshToken, jwtTokenId, deviceId, ip, ua, t) ==
    [error |-> "",
     sessions |-> InsertSession(S, userId, accessToken, refreshToken, jwtTokenId,
                                deviceId, ip, ua, P[userId], t)]

\* createSession: the user SELECT, 'User not found' when it is empty, the INSERT
createSession(S, P, userId, accessToken, refreshToken, jwtTokenId, deviceId, ip, ua, t) ==
    IF ~P[userId].exists
      THEN [error |-> "User not found", sessions |-> S]
      ELSE [error |-> "",
            sessions |-> InsertSession(S, userId, accessToken, refreshToken, jwtTokenId,
                                       deviceId, ip, ua, P[userId], t)]

\* UserManagement.updateUserRole: the fields that are given are written, on a
\* row that is created first when the user has none
updateUserRole(P, u, admin_role, user_type) ==
    IF admin_role = Undefined /\ user_type = Undefined
      THEN P    \* 'No valid fields to update'
      ELSE LET Q == createUserProfile(P, u,
                                      IF user_type = Undefined THEN "voter" ELSE user_type,
                                      IF admin_role = Undefined THEN "analyst" ELSE admin_role)
           IN [Q EXCEPT ![u].user_type = IF user_type = Undefined THEN @ ELSE user_type,
                        ![u].admin_role = IF admin_role = Undefined THEN @ ELSE admin_role]

\* variant: the SELECT does not compare the device id
RotateMatchAnyDevice(S, refreshToken, deviceId, t) ==
    {i \in 1..Len(S) :
        /\ SqlEq(S[i].refresh_token, refreshToken)
        /\ S[i].is_active
        /\ S[i].refresh_expires_at > t}

\* variant: the SELECT does not look at the refresh-expiry
RotateMatchAnyExpiry(S, refreshToken, deviceId, t) ==
    {i \in 1..Len(S) :
        /\ SqlEq(S[i].refresh_token, refreshToken)
        /\ SqlEq(S[i].device_id, deviceId)
        /\ S[i].is_active}

\* rotateRefreshToken's SELECT
RotateMatch(S, refreshToken, deviceId, t) ==
    {i \in 1..Len(S) :
        /\ SqlEq(S[i].refresh_token, refreshToken)
        /\ SqlEq(S[i].device_id, deviceId)
        /\ S[i].is_active
        /\ S[i].refresh_expires_at > t}

\* variant: the UPDATE leaves the refresh token in place
RotateUpdateKeepRefresh(S, id, newAccessToken, newRefreshToken, jwtTokenId, t) ==
    [i \in 1..Len(S) |->
        IF S[i].id = id
        THEN [S[i] EXCEPT !.session_token = newAccessToken,
                          !.jwt_token_id = jwtTokenId,
                          !.expires_at = t + parseExpiryToSeconds(ACCESS_TOKEN_EXPIRY),
                          !.refresh_expires_at = t + parseExpiryToSeconds(REFRESH_TOKEN_EXPIRY),
                          !.last_activity = t]
        ELSE S[i]]

\* variant: the UPDATE has no WHERE clause
RotateUpdateEveryRow(S, id, newAccessToken, newRefreshToken, jwtTokenId, t) ==
    [i \in 1..Len(S) |->
        [S[i] EXCEPT !.session_token = newAccessToken,
                     !.refresh_token = newRefreshToken,
                     !.jwt_token_id = jwtTokenId,
                     !.expires_at = t + parseExpiryToSeconds(ACCESS_TOKEN_EXPIRY),
                     !.refresh_expires_at = t + parseExpiryToSeconds(REFRESH_TOKEN_EXPIRY),
                     !.last_activity = t]]

\* rotateRefreshToken's UPDATE ... WHERE id = $6
RotateUpdateRows(S, id, newAccessToken, newRefreshToken, jwtTokenId, t) ==
    [i \in 1..Len(S) |->
        IF S[i].id = id
        THEN [S[i] EXCEPT !.session_token = newAccessToken,
                          !.refresh_token = newRefreshToken,
                          !.jwt_token_id = jwtTokenId,
                          !.expires_at = t + parseExpiryToSeconds(ACCESS_TOKEN_EXPIRY),
                          !.refresh_expires_at = t + parseExpiryToSeconds(REFRESH_TOKEN_EXPIRY),
                          !.last_activity = t]
        ELSE S[i]]

\* variant: the session SELECT does not look at is_active
SessionCheckAnyState(S, activeAccessToken, t) ==
    {i \in 1..Len(S) :
        /\ S[i].session_token = activeAccessToken
        /\ S[i].expires_at > t}

\* the gate's session SELECT
SessionCheckRows(S, activeAccessToken, t) ==
    {i \in 1..Len(S) :
        /\ S[i].session_token = activeAccessToken
        /\ S[i].is_active
        /\ S[i].expires_at > t}

\* the gate's UPDATE ... SET last_activity = NOW()
TouchRows(S, activeAccessToken, t) ==
    [i \in 1..Len(S) |->
        IF S[i].session_token = activeAccessToken
        THEN [S[i] EXCEPT !.last_activity = t]
        ELSE S[i]]

\* variant: the UPDATE has no WHERE clause
InvalidateAllRows(S, sessionToken) ==
    [i \in 1..Len(S) |-> [S[i] EXCEPT !.is_active = FALSE]]

\* invalidateSession's UPDATE
InvalidateRows(S, sessionToken) ==
    [i \in 1..Len(S) |->
        IF S[i].session_token = sessionToken
        THEN [S[i] EXCEPT !.is_active = FALSE]
        ELSE S[i]]

\* variant: the sweep goes by the access-expiry
CleanupByAccessExpiry(S, t) ==
    [i \in 1..Len(S) |->
        IF S[i].expires_at <= t /\ S[i].is_active
        THEN [S[i] EXCEPT !.is_active = FALSE]
        ELSE S[i]]

\* cleanupExpiredSessions' UPDATE
CleanupRows(S, t) ==
    [i \in 1..Len(S) |->
        IF S[i].refresh_expires_at <= t /\ S[i].is_active
        THEN [S[i] EXCEPT !.is_active = FALSE]
        ELSE S[i]]

\* ------------------------------------------------------------ request inputs
Forged(t) == [t EXCEPT !.sig = "other"]
\* the Authorization header after split(' '); <<>> stands for an absent header
AuthHeaders ==
    {<<>>, <<SchemeWord>>}
      \cup {<<SchemeWord, t>> : t \in issued \cup {GarbageToken}}
      \cup {<<SchemeWord, Forged(t)>> : t \in issued}
      \cup {<<GarbageToken>>, <<SchemeWord, EmptyToken, GarbageToken>>}

\* variant: the last part of the header is taken
ExtractLastPart(authHeader) ==
    IF authHeader = <<>> THEN UndefinedToken ELSE authHeader[Len(authHeader)]

\* authHeader?.split(' ')[1]?.trim(): the second part, whatever the first is
ExtractAccessToken(authHeader) ==
    IF Len(authHeader) < 2 THEN UndefinedToken ELSE authHeader[2]

RefreshInputs == {Undefined, EmptyString, "bogus"} \cup {generateRefreshToken(n) : n \in 1..rng}
DeviceInputs == {Undefined, "devX"} \cup DeviceIds

\* variant: the payload is signed without the user id
ClaimsWithoutUser(u, userType, adminRole) ==
    [userId |-> 0, userType |-> userType, adminRole |-> adminRole]

Claims(u, userType, adminRole) ==
    [userId |-> u, userType |-> userType, adminRole |-> adminRole]

\* the handler returns: its locals are gone, the response and the request's
\* decorations stay
Return(q) ==
    [q EXCEPT !.accessToken = UndefinedToken,
              !.refreshToken = Undefined, !.deviceId = Undefined,
              !.decoded = NoClaims, !.activeAccessToken = UndefinedToken,
              !.tokenRotated = FALSE, !.sessionId = 0,
              !.newAccessToken = UndefinedToken, !.newRefreshToken = Undefined,
              !.newJwtTokenId = 0]

\* variant: the error response is sent and the chain continues
RespondAndContinue(q, s, code, message) ==
    Return([q EXCEPT !.status = s, !.code = code, !.message = message, !.nextCalled = TRUE])

\* return res.status(s).json({ success: false, message, code })
Respond(q, s, code, message) ==
    Return([q EXCEPT !.status = s, !.code = code, !.message = message])

\* ------------------------------------------------------------ createUser
\* POST /create: profile row if absent, token pair, session row
CreateUser(u, deviceId) ==
    /\ Len(sessions) < MaxSessions
    /\ \A w \in Users : w < u => profiles[w].exists    \* user ids are handed out in order
    /\ rng < MaxRandom
    /\ LET P == createUserProfile(profiles, u, "voter", "analyst")
           accessToken == generateAccessToken(Claims(u, "voter", "analyst"), now)
           refreshToken == generateRefreshToken(rng + 1)
       IN /\ profiles' = P
          /\ sessions' = createSession(sessions, P, u, accessToken, refreshToken, rng + 1,
                                       deviceId, "ip", "ua", now).sessions
          /\ issued' = issued \cup {accessToken}
    /\ rng' = rng + 1
    /\ UNCHANGED <<env, now, pc, req, hist>>

\* PATCH /role/:userId as the model layer applies it
UpdateUserRole(u, admin_role, user_type) ==
    /\ profiles' = updateUserRole(profiles, u, admin_role, user_type)
    /\ UNCHANGED <<env, now, sessions, rng, issued, pc, req, hist>>

\* ------------------------------------------------------------ the gate
\* authenticateToken up to its first await
GateStart(r, authHeader, rtHeader, rtBody, devHeader, devBody) ==
    /\ pc[r] = "idle"
    /\ LET accessToken == ExtractAccessToken(authHeader)
           refreshToken == JsOr(rtHeader, rtBody)
           deviceId == JsOr(devHeader, devBody)
           v == verifyAccessToken(accessToken, now)
           q == [req[r] EXCEPT !.accessToken = accessToken,
                               !.refreshToken = refreshToken,
                               !.deviceId = deviceId,
                               !.presented = TokenSent(authHeader),
                               !.pair = PairSent(JsOr(rtHeader, rtBody), JsOr(devHeader, devBody)),
                               !.startedAt = now,
                               !.oldAccess = \E p \in hist.retired : p[1] = TokenSent(authHeader),
                               !.oldRefresh = \E p \in hist.retired : p[2] = JsOr(rtHeader, rtBody),
                               !.invalidatedAccess =
                                   \E i \in hist.invalidatedRows :
                                       sessions[i].session_token = TokenSent(authHeader),
                               !.invalidatedRefresh =
                                   \E i \in hist.invalidatedRows :
                                       sessions[i].refresh_token = JsOr(rtHeader, rtBody)]
       IN IF IsFalsyToken(accessToken)
            THEN /\ req' = [req EXCEPT ![r] = Respond(q, 401, "NO_ACCESS_TOKEN", "Access token required")]
                 /\ pc' = [pc EXCEPT ![r] = "done"]
          ELSE IF v.ok
            THEN \* refreshToken and deviceId are not read on this path
                 /\ req' = [req EXCEPT ![r] = [q EXCEPT !.decoded = v.decoded,
                                                        !.activeAccessToken = accessToken,
                                                        !.refreshToken = Undefined,
                                                        !.deviceId = Undefined]]
                 /\ pc' = [pc EXCEPT ![r] = "sessionCheck"]
          ELSE IF v.name = "TokenExpiredError"
            THEN IF Falsy(refreshToken) \/ Falsy(deviceId)
                   THEN /\ req' = [req EXCEPT ![r] =
                                     Respond(q, 401, "TOKEN_EXPIRED_NO_REFRESH",
                                             "Access token expired, refresh token and device ID required")]
                        /\ pc' = [pc EXCEPT ![r] = "done"]
                   ELSE /\ req' = [req EXCEPT ![r] = [q EXCEPT !.activeAccessToken = accessToken]]
                        /\ pc' = [pc EXCEPT ![r] = "rotateSelect"]
          ELSE /\ req' = [req EXCEPT ![r] = Respond(q, 403, "ACCESS_TOKEN_INVALID", "Invalid access token")]
               /\ pc' = [pc EXCEPT ![r] = "done"]
    /\ UNCHANGED <<env, now, profiles, sessions, rng, issued, hist>>

\* rotateRefreshToken: the SELECT and the code up to the UPDATE
RotateSelect(r) ==
    /\ pc[r] = "rotateSelect"
    /\ LET rows == RotateMatch(sessions, req[r].refreshToken, req[r].deviceId, now)
           q == [req[r] EXCEPT !.queries = @ + 1,
                               !.matchAtSelect =
                                   Observed(\E i \in RowIds :
                                       UsableRefreshRow(i, req[r].refreshToken, req[r].deviceId)),
                               !.missCause = MissCause(req[r].refreshToken, req[r].deviceId)]
       IN IF rows = {}
            THEN /\ req' = [req EXCEPT ![r] = Respond(q, 401, "REFRESH_TOKEN_INVALID",
                                                      "Invalid or expired refresh token")]
                 /\ pc' = [pc EXCEPT ![r] = "done"]
                 /\ rng' = rng
            ELSE /\ rng < MaxRandom
                 /\ \E i \in rows :
                      LET session == sessions[i]
                          newAccessToken ==
                              generateAccessToken(Claims(session.user_id,
                                                         JsOr(session.user_type, "voter"),
                                                         JsOr(session.admin_role, "analyst")), now)
                      IN req' = [req EXCEPT ![r] = [q EXCEPT !.sessionId = session.id,
                                                            !.newAccessToken = newAccessToken,
                                                            !.newRefreshToken = generateRefreshToken(rng + 1),
                                                            !.newJwtTokenId = rng + 1]]
                 /\ pc' = [pc EXCEPT ![r] = "rotateUpdate"]
                 /\ rng' = rng + 1
    /\ UNCHANGED <<env, now, profiles, sessions, issued, hist>>

\* rotateRefreshToken: the UPDATE and its return into the gate
RotateUpdate(r) ==
    /\ pc[r] = "rotateUpdate"
    /\ sessions' = RotateUpdateRows(sessions, req[r].sessionId, req[r].newAccessToken,
                                    req[r].newRefreshToken, req[r].newJwtTokenId, now)
    /\ issued' = issued \cup {req[r].newAccessToken}
    /\ LET v == verifyAccessToken(req[r].newAccessToken, now)
           q == [req[r] EXCEPT !.queries = @ + 1,
                               !.xAccessToken = req[r].newAccessToken,
                               !.xRefreshToken = req[r].newRefreshToken,
                               !.rotatedAt = now,
                               !.rowAtUpdate =
                                   IF \E i \in RowIds : /\ sessions[i].id = req[r].sessionId
                                                        /\ sessions[i].is_active
                                     THEN "active" ELSE "inactive",
                               !.pairPersisted =
                                   Observed(\E i \in DOMAIN sessions' :
                                       /\ sessions'[i].session_token = req[r].newAccessToken
                                       /\ sessions'[i].refresh_token = req[r].newRefreshToken)]
       IN IF v.ok
            THEN /\ req' = [req EXCEPT ![r] = [q EXCEPT !.decoded = v.decoded,
                                                        !.activeAccessToken = req[r].newAccessToken,
                                                        !.tokenRotated = TRUE]]
                 /\ pc' = [pc EXCEPT ![r] = "sessionCheck"]
            ELSE /\ req' = [req EXCEPT ![r] = Respond(q, 401, "REFRESH_TOKEN_INVALID", "jwt expired")]
                 /\ pc' = [pc EXCEPT ![r] = "done"]
    /\ UNCHANGED <<env, now, profiles, rng, hist>>

\* the gate's session SELECT
SessionCheck(r) ==
    /\ pc[r] = "sessionCheck"
    /\ LET rows == SessionCheckRows(sessions, req[r].activeAccessToken, now)
           q == [req[r] EXCEPT !.queries = @ + 1,
                               !.rowAtCheck =
                                   Observed(\E i \in RowIds :
                                       LiveAccessRow(i, req[r].activeAccessToken))]
       IN IF rows = {}
            THEN /\ req' = [req EXCEPT ![r] = Respond(q, 401, "SESSION_INVALID",
                                                      "Invalid or expired session")]
                 /\ pc' = [pc EXCEPT ![r] = "done"]
            ELSE /\ req' = [req EXCEPT ![r] = q]
                 /\ pc' = [pc EXCEPT ![r] = "touch"]
    /\ UNCHANGED <<env, now, profiles, sessions, rng, issued, hist>>

\* variant: the admin role is not copied
ResolvedIdentityNoRole(decoded) ==
    [userId |-> decoded.userId, userType |-> decoded.userType, adminRole |-> Undefined]

\* req.user = { userId, userType, adminRole } of the decoded token
ResolvedIdentity(decoded) ==
    [userId |-> decoded.userId, userType |-> decoded.userType, adminRole |-> decoded.adminRole]

\* the gate's last-activity UPDATE, req.user, req.tokenRotated and next()
Touch(r) ==
    /\ pc[r] = "touch"
    /\ sessions' = TouchRows(sessions, req[r].activeAccessToken, now)
    /\ req' = [req EXCEPT ![r] = Return([@ EXCEPT !.queries = @ + 1,
                                                  !.user = ResolvedIdentity(req[r].decoded),
                                                  !.reqTokenRotated = req[r].tokenRotated,
                                                  !.nextCalled = TRUE])]
    /\ pc' = [pc EXCEPT ![r] = "done"]
    /\ hist' = IF req[r].tokenRotated
                 THEN [hist EXCEPT !.retired = @ \cup {<<req[r].presented, req[r].refreshToken>>}]
                 ELSE hist
    /\ UNCHANGED <<env, now, profiles, rng, issued>>

\* err.message of an error thrown by the store's query()
StoreFaultMessage == "store fault"

\* a store query of rotateRefreshToken throws: the gate's inner catch
RotateQueryFault(r) ==
    /\ pc[r] \in {"rotateSelect", "rotateUpdate"}
    /\ req' = [req EXCEPT ![r] = Respond([@ EXCEPT !.queries = @ + 1, !.fault = TRUE], 401,
                                         "REFRESH_TOKEN_INVALID", StoreFaultMessage)]
    /\ pc' = [pc EXCEPT ![r] = "done"]
    /\ UNCHANGED <<env, now, profiles, sessions, rng, issued, hist>>

\* a store query of the gate itself throws: the gate's outer catch
GateQueryFault(r) ==
    /\ pc[r] \in {"sessionCheck", "touch"}
    /\ req' = [req EXCEPT ![r] = Respond([@ EXCEPT !.queries = @ + 1, !.fault = TRUE], 500,
                                         "SERVER_ERROR", "Server error")]
    /\ pc' = [pc EXCEPT ![r] = "done"]
    /\ UNCHANGED <<env, now, profiles, sessions, rng, issued, hist>>

\* the request is over; its slot serves the next request
RequestEnd(r) ==
    /\ pc[r] = "done"
    /\ pc' = [pc EXCEPT ![r] = "idle"]
    /\ req' = [req EXCEPT ![r] = IdleReq]
    /\ UNCHANGED <<env, now, profiles, sessions, rng, issued, hist>>

\* ------------------------------------------------------------ logout, sweep, time
InvalidateSession(sessionToken) ==
    /\ sessions' = InvalidateRows(sessions, sessionToken)
    /\ hist' = [hist EXCEPT !.invalidatedRows = @ \cup {i \in RowIds :
                                                   sessions[i].session_token = sessionToken}]
    /\ UNCHANGED <<env, now, profiles, rng, issued, pc, req>>

CleanupExpiredSessions ==
    /\ sessions' = CleanupRows(sessions, now)
    /\ UNCHANGED <<env, now, profiles, rng, issued, pc, req, hist>>

\* the clock is observed once per access-token lifetime
TickSeconds == parseExpiryToSeconds(ACCESS_TOKEN_EXPIRY)

Tick ==
    /\ now + TickSeconds <= MaxTicks * TickSeconds
    /\ now' = now + TickSeconds
    /\ UNCHANGED <<env, profiles, sessions, rng, issued, pc, req, hist>>

\* ------------------------------------------------------------ specifications
\* a client sends the refresh token and the device id either both as headers
\* or both as body fields
FromHeader(v, inBody) == IF inBody THEN Undefined ELSE v
FromBody(v, inBody) == IF inBody THEN v ELSE Undefined

\* a response is sent, and its slot released, before anything else happens
Settled == \A r \in Reqs : pc[r] # "done"

\* operations on the store that are not gate requests, and the clock
StoreNext ==
    \/ \E u \in Users, d \in DeviceIds : CreateUser(u, d)
    \/ \E t \in issued \cup {GarbageToken} : InvalidateSession(t)
    \/ CleanupExpiredSessions
    \/ Tick

GateSteps(r) ==
    \/ RotateSelect(r)
    \/ RotateUpdate(r)
    \/ SessionCheck(r)
    \/ Touch(r)

\* the operations outside the session core are not called
Outside == UNCHANGED <<keys, questions, out>>

\* one request at a time, with every shape of input
Next ==
    \/ Settled /\ StoreNext /\ Outside
    \/ /\ Settled
       /\ \E h \in AuthHeaders, rt \in RefreshInputs, dev \in DeviceInputs, inBody \in BOOLEAN :
            GateStart(1, h, FromHeader(rt, inBody), FromBody(rt, inBody),
                      FromHeader(dev, inBody), FromBody(dev, inBody))
       /\ Outside
    \/ Settled /\ GateSteps(1) /\ Outside
    \/ RequestEnd(1) /\ Outside

Spec == Init /\ [][Next]_vars

\* the same, where any store query of the request may throw
NextFault ==
    \/ Next
    \/ Settled /\ RotateQueryFault(1) /\ Outside
    \/ Settled /\ GateQueryFault(1) /\ Outside

SpecFault == Init /\ [][NextFault]_vars

\* requests of well-formed clients running concurrently
WellFormedHeaders == {<<SchemeWord, t>> : t \in issued}
WellFormedRefresh == {Undefined} \cup {generateRefreshToken(n) : n \in 1..rng}
WellFormedDevices == {Undefined} \cup DeviceIds

RaceStoreNext ==
    \/ /\ sessions = <<>>
       /\ \E u \in Users, d \in DeviceIds : CreateUser(u, d)
    \/ \E t \in issued : InvalidateSession(t)
    \/ CleanupExpiredSessions
    \/ Tick

NextRace ==
    \/ Settled /\ RaceStoreNext /\ Outside
    \/ /\ Settled
       /\ \E r \in Reqs, h \in WellFormedHeaders, rh \in WellFormedRefresh,
             dh \in WellFormedDevices :
               GateStart(r, h, rh, Undefined, dh, Undefined)
       /\ Outside
    \/ \E r \in Reqs : Settled /\ GateSteps(r) /\ Outside
    \/ \E r \in Reqs : RequestEnd(r) /\ Outside

SpecRace == Init /\ [][NextRace]_vars

\* the service started with any of these duration settings
EnvDurations == {<<>>, <<"0", "s">>, <<"1", "m">>, <<"3", "m">>}

InitConfig ==
    /\ env \in [ACCESS_TOKEN_EXPIRY : EnvDurations, REFRESH_TOKEN_EXPIRY : EnvDurations]
    /\ now = 0
    /\ profiles = [u \in Users |-> NoProfile]
    /\ sessions = <<>>
    /\ rng = 0
    /\ issued = {}
    /\ pc = [r \in Reqs |-> "idle"]
    /\ req = [r \in Reqs |-> IdleReq]
    /\ hist = [retired |-> {}, invalidatedRows |-> {}]
    /\ keys = <<>>
    /\ questions = <<>>
    /\ out = NoCall

ConfigStoreNext ==
    \/ \E u \in Users, d \in DeviceIds : CreateUser(u, d)
    \/ Tick

\* one request at a time from well-formed clients
NextConfig ==
    \/ Settled /\ ConfigStoreNext /\ Outside
    \/ /\ Settled
       /\ \E h \in WellFormedHeaders, rh \in WellFormedRefresh, dh \in WellFormedDevices :
               GateStart(1, h, rh, Undefined, dh, Undefined)
       /\ Outside
    \/ Settled /\ GateSteps(1) /\ Outside
    \/ RequestEnd(1) /\ Outside

SpecConfig == InitConfig /\ [][NextConfig]_vars

\* sessions of users whose role columns vary: a profile row may be there
\* before createUser is called, its role columns filled or empty, and roles
\* are changed while sessions live
ExistingProfiles ==
    {[exists |-> TRUE, user_type |-> ut, admin_role |-> ar] :
        ut \in {"individual_creator", SqlNull}, ar \in {"admin", SqlNull}}

InitRole ==
    /\ env = DefaultEnv
    /\ now = 0
    /\ profiles \in [Users -> {NoProfile} \cup ExistingProfiles]
    /\ sessions = <<>>
    /\ rng = 0
    /\ issued = {}
    /\ pc = [r \in Reqs |-> "idle"]
    /\ req = [r \in Reqs |-> IdleReq]
    /\ hist = [retired |-> {}, invalidatedRows |-> {}]
    /\ keys = <<>>
    /\ questions = <<>>
    /\ out = NoCall

RoleStoreNext ==
    \/ /\ sessions = <<>>
       /\ \E u \in Users, d \in DeviceIds : CreateUser(u, d)
    \/ \E u \in Users, ar \in AdminRoles \cup {Undefined}, ut \in UserTypes \cup {Undefined} :
           /\ \E i \in RowIds : sessions[i].user_id = u
           /\ UpdateUserRole(u, ar, ut)
    \/ Tick

NextRole ==
    \/ Settled /\ RoleStoreNext /\ Outside
    \/ /\ Settled
       /\ \E h \in WellFormedHeaders, rh \in WellFormedRefresh, dh \in WellFormedDevices :
            GateStart(1, h, rh, Undefined, dh, Undefined)
       /\ Outside
    \/ Settled /\ GateSteps(1) /\ Outside
    \/ RequestEnd(1) /\ Outside

SpecRole == InitRole /\ [][NextRole]_vars

\* ------------------------------------------------------------ session store, called directly
\* createSession({ userId, accessToken, refreshToken, deviceId, ... }) with a
\* token pair made the way createUser makes it
CallCreateSession(u, deviceId) ==
    /\ Len(sessions) < MaxSessions
    /\ rng < MaxRandom
    /\ LET accessToken == generateAccessToken(Claims(u, "voter", "analyst"), now)
           refreshToken == generateRefreshToken(rng + 1)
           res == createSession(sessions, profiles, u, accessToken, refreshToken, rng + 1,
                                deviceId, "ip", "ua", now)
       IN /\ sessions' = res.sessions
          /\ issued' = IF res.error = "" THEN issued \cup {accessToken} ELSE issued
          /\ out' = [op |-> "createSession", userId |-> u, accessToken |-> accessToken,
                     refreshToken |-> refreshToken, jwtTokenId |-> rng + 1,
                     deviceId |-> deviceId, error |-> res.error]
    /\ rng' = rng + 1
    /\ UNCHANGED <<env, now, profiles, pc, req, hist, keys, questions>>

NextStore ==
    \/ \E u \in Users, d \in DeviceIds \cup {Undefined} : CallCreateSession(u, d)
    \/ \E u \in Users, ar \in AdminRoles \cup {Undefined}, ut \in UserTypes \cup {Undefined} :
           sessions = <<>> /\ out = NoCall /\ UpdateUserRole(u, ar, ut) /\ Outside
    \/ Tick /\ Outside

SpecStore == InitRole /\ [][NextStore]_vars

\* ------------------------------------------------------------ authorization
\* what a middleware does with the request: next(), or a response
Proceed == [next |-> TRUE, status |-> 0, message |-> ""]
Reject(s, message) == [next |-> FALSE, status |-> s, message |-> message]

\* variant: only a missing property counts as no admin role
requireAdminUndefinedOnly(user) ==
    IF user.adminRole = Undefined THEN Reject(403, "Admin access required") ELSE Proceed

\* requireAdmin: if (!req.user.adminRole)
requireAdmin(user) ==
    IF Falsy(user.adminRole) THEN Reject(403, "Admin access required") ELSE Proceed

\* requireRole(allowedRoles): if (!adminRole || !allowedRoles.includes(adminRole))
requireRole(allowedRoles, user) ==
    IF Falsy(user.adminRole) \/ user.adminRole \notin allowedRoles
      THEN Reject(403, "Insufficient permissions")
      ELSE Proceed

\* resolved identities, with the admin role a role, or "", null or missing
Identities ==
    {[userId |-> u, userType |-> ut, adminRole |-> ar] :
        u \in Users, ut \in UserTypes,
        ar \in AdminRoles \cup {"manager", EmptyString, SqlNull, Undefined}}

AllowedRoleSets == SUBSET (AdminRoles \cup {"manager"})

InitAuthz ==
    /\ env = DefaultEnv
    /\ now = 0
    /\ profiles = [u \in Users |-> NoProfile]
    /\ sessions = <<>>
    /\ rng = 0
    /\ issued = {}
    /\ pc = [r \in Reqs |-> "idle"]
    /\ req = [r \in Reqs |-> IdleReq]
    /\ hist = [retired |-> {}, invalidatedRows |-> {}]
    /\ keys = <<>>
    /\ questions = <<>>
    /\ out \in {[op |-> "identity", user |-> user] : user \in Identities}

CallRequireAdmin ==
    /\ out.op = "identity"
    /\ out' = [op |-> "requireAdmin", user |-> out.user, result |-> requireAdmin(out.user)]
    /\ UNCHANGED <<gateVars, challengeVars>>

CallRequireRole(allowedRoles) ==
    /\ out.op = "identity"
    /\ out' = [op |-> "requireRole", user |-> out.user, allowedRoles |-> allowedRoles,
               result |-> requireRole(allowedRoles, out.user)]
    /\ UNCHANGED <<gateVars, challengeVars>>

NextAuthz ==
    \/ CallRequireAdmin
    \/ \E allowedRoles \in AllowedRoleSets : CallRequireRole(allowedRoles)

SpecAuthz == InitAuthz /\ [][NextAuthz]_vars

\* ------------------------------------------------------------ security-question challenge
MaxKeys == 3
MaxQuestions == 2
MaxAnswers == 2

QuestionTexts == {"pet name?"}
AnswerTexts == {"Rex", "rex"}

\* forge.util.encode64 / decode64
encode64(x) == [b64 |-> x]
decode64(y) == y.b64

\* forge.pki.rsa.generateKeyPair: the n-th pair generated, as its two PEMs
generateKeyPair(n) ==
    [publicKeyPem |-> [pem |-> "PUBLIC KEY", pair |-> n],
     privateKeyPem |-> [pem |-> "PRIVATE KEY", pair |-> n]]

\* publicKey.encrypt(answer, 'RSA-OAEP')
encrypt(publicKey, plain) == [oaep |-> publicKey.pair, plain |-> plain]

\* privateKey.decrypt(ciphertext, 'RSA-OAEP'): throws under another pair's key
DecryptFailure == "decryption failed"
decrypt(privateKey, cipher) ==
    IF cipher.oaep = privateKey.pair
      THEN [error |-> "", plain |-> cipher.plain]
      ELSE [error |-> DecryptFailure, plain |-> ""]

\* crypto.createHash('sha256').update(data).digest('hex')
sha256(data) == [sha256hex |-> data]

\* SELECT ... FROM vottery_biometric_keys WHERE user_id=$1
KeyRows(K, userId) == {i \in 1..Len(K) : K[i].user_id = userId}

\* variant: the questions are selected by id alone
SelectQuestionsAnyUser(Q, userId, questionIds) ==
    {Q[i] : i \in {j \in 1..Len(Q) : Q[j].id \in questionIds}}

\* SELECT id, encrypted_answer, signature ... WHERE user_id=$1 AND id = ANY($2)
SelectQuestions(Q, userId, questionIds) ==
    {Q[i] : i \in {j \in 1..Len(Q) : Q[j].user_id = userId /\ Q[j].id \in questionIds}}

\* variant: the loop stops after the first entry
RECURSIVE VerifyFirstOnly(_, _, _, _, _)
VerifyFirstOnly(rows, privateKey, answers, i, decrypted) ==
    IF i > Len(answers) \/ i > 1 THEN [error |-> "", decrypted |-> decrypted]
    ELSE LET a == answers[i]
             found == {q \in rows : q.id = a.questionId}
         IN IF found = {} THEN [error |-> "Invalid question ID", decrypted |-> decrypted]
            ELSE LET dbQ == CHOOSE q \in found : TRUE
                     dec == decrypt(privateKey, decode64(dbQ.encrypted_answer))
                     seen == decrypted \cup {dbQ.id}
                 IN IF dec.error # "" THEN [error |-> dec.error, decrypted |-> seen]
                    ELSE IF dec.plain # a.answer
                      THEN [error |-> "Answer mismatch", decrypted |-> seen]
                    ELSE IF sha256(dec.plain) # dbQ.signature
                      THEN [error |-> "Signature mismatch", decrypted |-> seen]
                    ELSE VerifyFirstOnly(rows, privateKey, answers, i + 1, seen)

\* variant: the recomputed hash is not compared with the stored signature
RECURSIVE VerifyEachUnsigned(_, _, _, _, _)
VerifyEachUnsigned(rows, privateKey, answers, i, decrypted) ==
    IF i > Len(answers) THEN [error |-> "", decrypted |-> decrypted]
    ELSE LET a == answers[i]
             found == {q \in rows : q.id = a.questionId}
         IN IF found = {} THEN [error |-> "Invalid question ID", decrypted |-> decrypted]
            ELSE LET dbQ == CHOOSE q \in found : TRUE
                     dec == decrypt(privateKey, decode64(dbQ.encrypted_answer))
                     seen == decrypted \cup {dbQ.id}
                 IN IF dec.error # "" THEN [error |-> dec.error, decrypted |-> seen]
                    ELSE IF dec.plain # a.answer
                      THEN [error |-> "Answer mismatch", decrypted |-> seen]
                    ELSE VerifyEachUnsigned(rows, privateKey, answers, i + 1, seen)

\* for (const a of answers): find, decrypt, compare, check the signature
RECURSIVE VerifyEach(_, _, _, _, _)
VerifyEach(rows, privateKey, answers, i, decrypted) ==
    IF i > Len(answers) THEN [error |-> "", decrypted |-> decrypted]
    ELSE LET a == answers[i]
             found == {q \in rows : q.id = a.questionId}
         IN IF found = {} THEN [error |-> "Invalid question ID", decrypted |-> decrypted]
            ELSE LET dbQ == CHOOSE q \in found : TRUE
                     dec == decrypt(privateKey, decode64(dbQ.encrypted_answer))
                     seen == decrypted \cup {dbQ.id}
                 IN IF dec.error # "" THEN [error |-> dec.error, decrypted |-> seen]
                    ELSE IF dec.plain # a.answer
                      THEN [error |-> "Answer mismatch", decrypted |-> seen]
                    ELSE IF sha256(dec.plain) # dbQ.signature
                      THEN [error |-> "Signature mismatch", decrypted |-> seen]
                    ELSE VerifyEach(rows, privateKey, answers, i + 1, seen)

\* verifySecurityAnswers with k the key row the first SELECT returned as
\* rows[0] (0 when it returned none)
\* variant: every stored question of the user has to be answered
verifyAllQuestions(K, Q, userId, answers, k) ==
    IF k = 0 THEN [error |-> "User keys not found", decrypted |-> {}, questionQueries |-> 0]
    ELSE LET privateKey == decode64(K[k].encrypted_private_key)
             questionIds == {answers[i].questionId : i \in 1..Len(answers)}
             rows == SelectQuestions(Q, userId, questionIds)
             res == VerifyEach(rows, privateKey, answers, 1, {})
         IN IF \E j \in 1..Len(Q) : Q[j].user_id = userId /\ Q[j].id \notin questionIds
              THEN [error |-> "Invalid question ID", decrypted |-> {}, questionQueries |-> 1]
              ELSE [error |-> res.error, decrypted |-> res.decrypted, questionQueries |-> 1]

verifySecurityAnswers(K, Q, userId, answers, k) ==
    IF k = 0 THEN [error |-> "User keys not found", decrypted |-> {}, questionQueries |-> 0]
    ELSE LET privateKey == decode64(K[k].encrypted_private_key)
             questionIds == {answers[i].questionId : i \in 1..Len(answers)}
             rows == SelectQuestions(Q, userId, questionIds)
             res == VerifyEach(rows, privateKey, answers, 1, {})
         IN [error |-> res.error, decrypted |-> res.decrypted, questionQueries |-> 1]

\* variant: SELECT * with no WHERE clause
getSecurityQuestionsAllRows(Q, userId) == {Q[i] : i \in 1..Len(Q)}

\* getSecurityQuestions: SELECT id, question
getSecurityQuestions(Q, userId) ==
    {[id |-> Q[i].id, question |-> Q[i].question] : i \in {j \in 1..Len(Q) : Q[j].user_id = userId}}

\* variant: the key SELECT has no WHERE clause
FirstRowsAnyUser(K, userId) == IF K = <<>> THEN {0} ELSE 1..Len(K)

\* the key row a SELECT without ORDER BY hands over as rows[0]
FirstRows(K, userId) == IF KeyRows(K, userId) = {} THEN {0} ELSE KeyRows(K, userId)

RegisterKeys(userId) ==
    /\ Len(keys) < MaxKeys
    /\ LET keypair == generateKeyPair(Len(keys) + 1)
       IN /\ keys' = Append(keys, [user_id |-> userId,
                                   public_key |-> keypair.publicKeyPem,
                                   encrypted_private_key |-> encode64(keypair.privateKeyPem)])
          /\ out' = [op |-> "registerKeys", userId |-> userId, status |-> 200, message |-> ""]
    /\ UNCHANGED <<gateVars, questions>>

AddSecurityQuestion(userId, question, answer) ==
    /\ Len(questions) < MaxQuestions
    /\ \E k \in FirstRows(keys, userId) :
          IF k = 0
            THEN /\ out' = [op |-> "addSecurityQuestion", userId |-> userId, id |-> 0,
                            answer |-> answer, status |-> 500,
                            message |-> "User keys not found"]
                 /\ UNCHANGED questions
            ELSE /\ questions' = Append(questions,
                        [id |-> Len(questions) + 1,
                         user_id |-> userId,
                         question |-> question,
                         encrypted_answer |-> encode64(encrypt(keys[k].public_key, answer)),
                         signature |-> sha256(answer)])
                 /\ out' = [op |-> "addSecurityQuestion", userId |-> userId,
                            id |-> Len(questions) + 1, answer |-> answer,
                            status |-> 200, message |-> ""]
    /\ UNCHANGED <<gateVars, keys>>

GetSecurityQuestions(userId) ==
    /\ out' = [op |-> "getSecurityQuestions", userId |-> userId, status |-> 200,
               questions |-> getSecurityQuestions(questions, userId)]
    /\ UNCHANGED <<gateVars, challengeVars>>

VerifySecurityAnswers(userId, answers) ==
    /\ \E k \in FirstRows(keys, userId) :
          LET res == verifySecurityAnswers(keys, questions, userId, answers, k)
          IN out' = [op |-> "verifySecurityAnswers", userId |-> userId, answers |-> answers,
                     keyRow |-> k, error |-> res.error, decrypted |-> res.decrypted,
                     questionQueries |-> res.questionQueries,
                     status |-> IF res.error = "" THEN 200 ELSE 400,
                     message |-> IF res.error = "" THEN "All answers verified" ELSE res.error]
    /\ UNCHANGED <<gateVars, challengeVars>>

AnswerEntries == [questionId : 1..(MaxQuestions + 1), answer : AnswerTexts]
AnswerLists == UNION {[1..n -> AnswerEntries] : n \in 0..MaxAnswers}

\* the last call wrote to the store, or there was none: the two reading calls
\* are taken once after each write, since a second one in a row reads the
\* same tables and returns what any first one can
Written == out.op \notin {"getSecurityQuestions", "verifySecurityAnswers"}

NextChallenge ==
    \/ \E u \in Users : RegisterKeys(u)
    \/ \E u \in Users, q \in QuestionTexts, a \in AnswerTexts : AddSecurityQuestion(u, q, a)
    \/ \E u \in Users : Written /\ GetSecurityQuestions(u)
    \/ \E u \in Users, answers \in AnswerLists : Written /\ VerifySecurityAnswers(u, answers)

SpecChallenge == Init /\ [][NextChallenge]_vars

\* every stored question is as addSecurityQuestion writes one: encrypted to a
\* key of its user, signed with the hash of its plaintext
Intact ==
    \A i \in 1..Len(questions) :
        /\ \E k \in KeyRows(keys, questions[i].user_id) :
               keys[k].public_key.pair = decode64(questions[i].encrypted_answer).oaep
        /\ questions[i].signature = sha256(decode64(questions[i].encrypted_answer).plain)

\* a write to a stored question from outside the service: the ciphertext is
\* replaced by one made with a public key of the keys table, the signature by
\* the hash of some answer; taken while the other rows are intact
Substitute(i, k, a, b) ==
    /\ i \in 1..Len(questions)
    /\ k \in 1..Len(keys)
    /\ questions' = [questions EXCEPT
                        ![i].encrypted_answer = encode64(encrypt(keys[k].public_key, a)),
                        ![i].signature = sha256(b)]
    /\ questions' # questions
    /\ out' = [op |-> "substitute", id |-> questions[i].id]
    /\ UNCHANGED <<gateVars, keys>>

NextSubstituted ==
    \/ \E u \in Users : RegisterKeys(u)
    \/ \E u \in Users, q \in QuestionTexts, a \in AnswerTexts : AddSecurityQuestion(u, q, a)
    \/ \E i \in 1..MaxQuestions, k \in 1..MaxKeys, a, b \in AnswerTexts :
           Written /\ Intact /\ Substitute(i, k, a, b)
    \/ \E u \in Users : Written /\ GetSecurityQuestions(u)
    \/ \E u \in Users, answers \in AnswerLists : Written /\ VerifySecurityAnswers(u, answers)

SpecSubstituted == Init /\ [][NextSubstituted]_vars

\* ------------------------------------------------------------ field encryption
MaxTextLen == 2

ENCRYPTION_KEY == "vottery_encryption_key_32_chars!!"

\* a text is a sequence of UTF-16 code units: a letter, the colon, a high
\* surrogate, a low surrogate
CodeUnits == {"a", ":", "HI", "LO"}
Texts == UNION {[1..n -> CodeUnits] : n \in 0..MaxTextLen}

\* the UTF-8 bytes of a text, as the sequence of characters they encode: a
\* surrogate pair is one character, an unpaired surrogate is written as U+FFFD
RECURSIVE utf8Encode(_)
utf8Encode(text) ==
    IF text = <<>> THEN <<>>
    ELSE IF Len(text) >= 2 /\ text[1] = "HI" /\ text[2] = "LO"
      THEN <<"U+10000">> \o utf8Encode(SubSeq(text, 3, Len(text)))
    ELSE IF text[1] \in {"HI", "LO"}
      THEN <<"U+FFFD">> \o utf8Encode(Tail(text))
    ELSE <<text[1]>> \o utf8Encode(Tail(text))

\* the text of a UTF-8 byte sequence
RECURSIVE utf8Decode(_)
utf8Decode(bytes) ==
    IF bytes = <<>> THEN <<>>
    ELSE IF bytes[1] = "U+10000" THEN <<"HI", "LO">> \o utf8Decode(Tail(bytes))
    ELSE IF bytes[1] = "U+FFFD" THEN <<"FFFD">> \o utf8Decode(Tail(bytes))
    ELSE <<bytes[1]>> \o utf8Decode(Tail(bytes))

\* byte strings: none, and the values crypto.randomBytes(16) returns
NoBytes == [bytes |-> "none"]
Ivs == {[bytes |-> "iv1"], [bytes |-> "iv2"]}

\* AES-256-GCM under scrypt(key): the ciphertext and its authentication tag
gcmCipher(key, iv, bytes) == [aes |-> key, iv |-> iv, plain |-> bytes]
gcmTag(key, iv, aad, cipher) == [tag |-> key, iv |-> iv, aad |-> aad, over |-> cipher]

\* one ':'-separated field of a string: the bytes its leading hex digits
\* decode to and the characters after them; Buffer.from(field, 'hex') stops at
\* the first character that is not a hex digit
Field(bytes, rest) == [hex |-> bytes, rest |-> rest]
hexDecode(field) == field.hex
toHex(bytes) == Field(bytes, "")

\* a string as the list of its ':'-separated fields (String.prototype.split),
\* and the values that are not strings
Str(fields) == [type |-> "string", fields |-> fields]
\* a string as its code units
Plain(units) == [type |-> "string", units |-> units]
JsNull == [type |-> "null", fields |-> <<>>]
JsUndefined == [type |-> "undefined", fields |-> <<>>]
JsNumber == [type |-> "number", fields |-> <<>>]

\* variant: the cipher is given no additional authenticated data
encryptSensitiveDataNoAad(text, iv) ==
    IF text = <<>> THEN JsNull
    ELSE LET cipher == gcmCipher(ENCRYPTION_KEY, iv, utf8Encode(text))
             authTag == gcmTag(ENCRYPTION_KEY, iv, "", cipher)
         IN Str(<<toHex(iv), toHex(authTag), toHex(cipher)>>)

\* encryptSensitiveData with iv the bytes crypto.randomBytes returned
encryptSensitiveData(text, iv) ==
    IF text = <<>> THEN JsNull
    ELSE LET cipher == gcmCipher(ENCRYPTION_KEY, iv, utf8Encode(text))
             authTag == gcmTag(ENCRYPTION_KEY, iv, "vottery", cipher)
         IN Str(<<toHex(iv), toHex(authTag), toHex(cipher)>>)

\* the try block of decryptSensitiveData after the guard
Decipher(encrypted) ==
    LET parts == encrypted.fields
    IN IF Len(parts) < 3 THEN [threw |-> TRUE, value |-> JsUndefined]
       ELSE LET iv == hexDecode(parts[1])
                authTag == hexDecode(parts[2])
                cipher == hexDecode(parts[3])
            IN IF iv = NoBytes THEN [threw |-> TRUE, value |-> JsUndefined]
               ELSE IF authTag # gcmTag(ENCRYPTION_KEY, iv, "vottery", cipher)
                 THEN [threw |-> TRUE, value |-> JsUndefined]
               ELSE [threw |-> FALSE, value |-> Plain(utf8Decode(cipher.plain))]

\* variant: a failure of the try block reaches the caller
decryptSensitiveDataUncaught(encrypted) ==
    IF encrypted.type # "string" THEN [raised |-> FALSE, value |-> encrypted]
    ELSE IF Len(encrypted.fields) = 1 THEN [raised |-> FALSE, value |-> encrypted]
    ELSE LET res == Decipher(encrypted)
         IN IF res.threw THEN [raised |-> TRUE, value |-> encrypted]
            ELSE [raised |-> FALSE, value |-> res.value]

\* decryptSensitiveData: the guard, the try block, the catch
decryptSensitiveData(encrypted) ==
    IF encrypted.type # "string" THEN [raised |-> FALSE, value |-> encrypted]
    ELSE IF Len(encrypted.fields) = 1 THEN [raised |-> FALSE, value |-> encrypted]
    ELSE LET res == Decipher(encrypted)
         IN IF res.threw THEN [raised |-> FALSE, value |-> encrypted]
            ELSE [raised |-> FALSE, value |-> res.value]

\* a word without hex digits or colon
Word == Field(NoBytes, "word")

\* what encryptSensitiveData returns for the non-empty texts
Envelopes == {encryptSensitiveData(t, iv) : t \in Texts \ {<<>>}, iv \in Ivs}

\* values a stored column can hold: no value, a number, plain strings with or
\* without colons, envelopes, and envelopes cut short, extended by a field,
\* with the tag of another envelope, with an empty IV, or with characters
\* after the ciphertext's hex digits
StoredValues ==
    {JsNull, JsUndefined, JsNumber, Str(<<Field(NoBytes, "")>>), Str(<<Word>>),
     Str(<<Word, Word>>), Str(<<Word, Word, Word>>)}
    \cup Envelopes
    \cup {Str(SubSeq(e.fields, 1, 2)) : e \in Envelopes}
    \cup {Str(e.fields \o <<Word>>) : e \in Envelopes}
    \cup {Str(<<e.fields[1], f.fields[2], e.fields[3]>>) : e, f \in Envelopes}
    \cup {Str(<<Field(NoBytes, ""), e.fields[2], e.fields[3]>>) : e \in Envelopes}
    \cup {Str(<<e.fields[1], e.fields[2], Field(e.fields[3].hex, "zz")>>) : e \in Envelopes}

InitField ==
    /\ env = DefaultEnv
    /\ now = 0
    /\ profiles = [u \in Users |-> NoProfile]
    /\ sessions = <<>>
    /\ rng = 0
    /\ issued = {}
    /\ pc = [r \in Reqs |-> "idle"]
    /\ req = [r \in Reqs |-> IdleReq]
    /\ hist = [retired |-> {}, invalidatedRows |-> {}]
    /\ keys = <<>>
    /\ questions = <<>>
    /\ out \in {[op |-> "text", text |-> t] : t \in Texts}
               \cup {[op |-> "stored", value |-> v] : v \in StoredValues}

CallEncrypt(iv) ==
    /\ out.op = "text"
    /\ out' = [op |-> "encrypted", text |-> out.text, iv |-> iv,
               value |-> encryptSensitiveData(out.text, iv)]
    /\ UNCHANGED <<gateVars, challengeVars>>

CallDecryptEncrypted ==
    /\ out.op = "encrypted"
    /\ LET res == decryptSensitiveData(out.value)
       IN out' = [op |-> "roundtrip", text |-> out.text, encrypted |-> out.value,
                  raised |-> res.raised, value |-> res.value]
    /\ UNCHANGED <<gateVars, challengeVars>>

CallDecryptStored ==
    /\ out.op = "stored"
    /\ LET res == decryptSensitiveData(out.value)
       IN out' = [op |-> "decrypted", encrypted |-> out.value,
                  raised |-> res.raised, value |-> res.value]
    /\ UNCHANGED <<gateVars, challengeVars>>

NextField ==
    \/ \E iv \in Ivs : CallEncrypt(iv)
    \/ CallDecryptEncrypted
    \/ CallDecryptStored

SpecField == InitField /\ [][NextField]_vars

\* ------------------------------------------------------------ duration strings
MaxExpiryLen == 3

\* characters of a duration string: digits, units, and a letter, a sign, a
\* point and a blank
ExpiryChars == {"0", "1", "9", "s", "m", "h", "d", "x", "-", ".", " "}
ExpiryStrings == UNION {[1..n -> ExpiryChars] : n \in 0..MaxExpiryLen}

InitExpiry ==
    /\ env = DefaultEnv
    /\ now = 0
    /\ profiles = [u \in Users |-> NoProfile]
    /\ sessions = <<>>
    /\ rng = 0
    /\ issued = {}
    /\ pc = [r \in Reqs |-> "idle"]
    /\ req = [r \in Reqs |-> IdleReq]
    /\ hist = [retired |-> {}, invalidatedRows |-> {}]
    /\ keys = <<>>
    /\ questions = <<>>
    /\ out \in {[op |-> "expiry", expiry |-> e] : e \in ExpiryStrings}

\* parseExpiryToSeconds(expiry): the number returned or the error thrown
CallParseExpiry ==
    /\ out.op = "expiry"
    /\ out' = IF ExpiryMatches(out.expiry)
                THEN [op |-> "parsed", expiry |-> out.expiry, error |-> "",
                      seconds |-> parseExpiryToSeconds(out.expiry)]
                ELSE [op |-> "parsed", expiry |-> out.expiry,
                      error |-> parseExpiryToSeconds(out.expiry), seconds |-> 0]
    /\ UNCHANGED <<gateVars, challengeVars>>

NextExpiry == CallParseExpiry

SpecExpiry == InitExpiry /\ [][NextExpiry]_vars

\* ------------------------------------------------------------ properties
Done(r) == pc[r] = "done"

\* the token a request sent was signed with the service's secret
GoodSignature(t) == t.kind = "jwt" /\ t.sig = JWT_SECRET

\* ... and was, or was not, past its expiry when the request arrived
Verifies(q) == GoodSignature(q.presented) /\ q.startedAt < q.presented.exp
Expired(q) == GoodSignature(q.presented) /\ q.startedAt >= q.presented.exp

NoTokenSent(q) == q.presented \in {UndefinedToken, EmptyToken}

\* the request ended with this status and code, and went no further
Failed(q, s, code) ==
    /\ q.status = s
    /\ q.code = code
    /\ ~q.nextCalled
    /\ q.user = NoClaims

\* no store query was made and nothing was sent back in the token headers
NoStoreAccess(q) ==
    /\ q.queries = 0
    /\ q.matchAtSelect = "none"
    /\ q.rowAtCheck = "none"
    /\ q.xAccessToken = UndefinedToken
    /\ q.xRefreshToken = Undefined

\* the token the session check of a finished request was made with
ActiveToken(q) == IF q.reqTokenRotated THEN q.xAccessToken ELSE q.presented

\* C1: a request whose access token verifies and whose session check finds an
\* active row holding that token with access-expiry in the future ends
\* Authenticated, with req.user equal to the token's claims, without any
\* rotation, whether or not a refresh token and device id came along.
C1_ValidTokenAuthenticates ==
    \A r \in Reqs :
        (Done(r) /\ Verifies(req[r]) /\ req[r].rowAtCheck = "found") =>
            /\ req[r].nextCalled
            /\ req[r].status = 0
            /\ req[r].user = [userId |-> req[r].presented.userId,
                              userType |-> req[r].presented.userType,
                              adminRole |-> req[r].presented.adminRole]
            /\ ~req[r].reqTokenRotated
            /\ req[r].matchAtSelect = "none"
            /\ req[r].xAccessToken = UndefinedToken

C1_Witness ==
    \E r \in Reqs :
        /\ Done(r)
        /\ Verifies(req[r])
        /\ req[r].rowAtCheck = "found"
        /\ req[r].pair = "usable"
        /\ req[r].nextCalled

\* C2: of the requests that rotate concurrently with the same refresh token
\* and device id, at most one gets a token pair back.
C2_RotationSingleUse ==
    \A r1, r2 \in Reqs :
        (r1 # r2 /\ req[r1].tokenRotated /\ req[r2].tokenRotated) =>
            req[r1].refreshToken # req[r2].refreshToken

\* C3: a request that ends in RefreshTokenInvalid or in an internal fault has
\* not applied a rotation to the session row.
C3_NoPartialRotation ==
    \A r \in Reqs :
        (Done(r) /\ req[r].code \in {"REFRESH_TOKEN_INVALID", "SERVER_ERROR"}) =>
            req[r].pairPersisted = "none"

\* what a refresh-path request that ended Authenticated leaves in the store:
\* the pair it sent back, expiring one access duration after the rotation
RotationApplied(r) ==
    (Done(r) /\ req[r].nextCalled /\ req[r].reqTokenRotated) =>
        /\ Expired(req[r])
        /\ req[r].xAccessToken.exp =
               req[r].rotatedAt + parseExpiryToSeconds(ACCESS_TOKEN_EXPIRY)
        /\ \E i \in RowIds :
               /\ sessions[i].session_token = req[r].xAccessToken
               /\ sessions[i].refresh_token = req[r].xRefreshToken
               /\ sessions[i].expires_at =
                      req[r].rotatedAt + parseExpiryToSeconds(ACCESS_TOKEN_EXPIRY)

\* a refresh token that was rotated away is in no row, and a rotation asked
\* with it fails with RefreshTokenInvalid
OldRefreshRejected ==
    /\ \A p \in hist.retired : \A i \in RowIds : sessions[i].refresh_token # p[2]
    /\ \A r \in Reqs :
           (Done(r) /\ req[r].oldRefresh) =>
               /\ ~req[r].reqTokenRotated
               /\ req[r].matchAtSelect # "found"
               /\ req[r].matchAtSelect = "missing" =>
                      Failed(req[r], 401, "REFRESH_TOKEN_INVALID")

\* C4 as stated: every later request presenting the old access token is rejected
C4_OldPairRejected ==
    /\ \A r \in Reqs : RotationApplied(r)
    /\ OldRefreshRejected
    /\ \A r \in Reqs : (Done(r) /\ req[r].oldAccess) => ~req[r].nextCalled

\* C4: after a successful refresh-path request the session holds the new pair
\* with access-expiry at rotation time plus the access duration; the old
\* refresh token never rotates again; the old access token satisfies no
\* session check again, and a request presenting it is rejected unless it
\* also carries a refresh token and device id that are valid at that time, in
\* which case it is authenticated through a further rotation only.
C4_OldPairRetired ==
    /\ \A r \in Reqs : RotationApplied(r)
    /\ OldRefreshRejected
    /\ \A p \in hist.retired : \A i \in RowIds : ~LiveAccessRow(i, p[1])
    /\ \A r \in Reqs :
           (Done(r) /\ req[r].oldAccess) =>
               /\ req[r].rowAtCheck = "found" => req[r].reqTokenRotated
               /\ req[r].nextCalled =>
                      /\ req[r].reqTokenRotated
                      /\ req[r].pair = "usable"
                      /\ req[r].matchAtSelect = "found"
               /\ req[r].pair # "usable" => ~req[r].nextCalled

C4_Witness ==
    \E r \in Reqs :
        /\ Done(r)
        /\ req[r].oldAccess
        /\ req[r].nextCalled
        /\ req[r].reqTokenRotated
        /\ hist.retired # {}

\* C5: a rotation whose SELECT finds no row that is active, not past its
\* refresh-expiry and holding both the refresh token and the device id
\* modifies no row, and the request ends there with RefreshTokenInvalid (401)
\* without a session check.
C5_RotateRejects ==
    [][\A r \in Reqs :
          (/\ pc[r] = "rotateSelect"
           /\ req'[r] # req[r]
           /\ ~\E i \in RowIds : UsableRefreshRow(i, req[r].refreshToken, req[r].deviceId))
          => /\ sessions' = sessions
             /\ pc'[r] = "done"
             /\ Failed(req'[r], 401, "REFRESH_TOKEN_INVALID")
             /\ req'[r].queries = 1
             /\ req'[r].rowAtCheck = "none"
             /\ req'[r].xAccessToken = UndefinedToken
             /\ req'[r].xRefreshToken = Undefined]_vars

C5_Witness ==
    \E r \in Reqs :
        /\ Done(r)
        /\ req[r].matchAtSelect = "missing"
        /\ req[r].pair = "given"
        /\ req[r].code = "REFRESH_TOKEN_INVALID"

\* C6: a request whose access token is expired (signature good) and that
\* lacks the refresh token or the device id ends with TokenExpiredNoRefresh
\* (401) without any store query: no rotation, no row read or written.
C6_ExpiredWithoutPair ==
    \A r \in Reqs :
        (Done(r) /\ Expired(req[r]) /\ req[r].pair = "absent") =>
            /\ Failed(req[r], 401, "TOKEN_EXPIRED_NO_REFRESH")
            /\ NoStoreAccess(req[r])

C6_Witness ==
    \E r \in Reqs :
        /\ Done(r)
        /\ Expired(req[r])
        /\ req[r].pair = "absent"
        /\ req[r].code = "TOKEN_EXPIRED_NO_REFRESH"
        /\ sessions # <<>>

\* C7: a token that is sent but is malformed or not signed with the service's
\* secret ends the request with AccessTokenInvalid (403), whatever its expiry
\* and whatever refresh token and device id accompany it: no rotation, no
\* session check.
C7_InvalidTokenRejected ==
    \A r \in Reqs :
        (Done(r) /\ ~NoTokenSent(req[r]) /\ ~GoodSignature(req[r].presented)) =>
            /\ Failed(req[r], 403, "ACCESS_TOKEN_INVALID")
            /\ NoStoreAccess(req[r])

C7_Witness ==
    \E r \in Reqs :
        /\ Done(r)
        /\ req[r].presented.kind = "jwt"
        /\ req[r].presented.sig # JWT_SECRET
        /\ req[r].startedAt >= req[r].presented.exp
        /\ req[r].pair = "usable"
        /\ req[r].code = "ACCESS_TOKEN_INVALID"

\* C8: a request without an Authorization header, or without a token after
\* the scheme word, ends with NoAccessToken (401) without any store query,
\* even when a valid refresh token and device id are present.
C8_NoTokenRejected ==
    \A r \in Reqs :
        (Done(r) /\ NoTokenSent(req[r])) =>
            /\ Failed(req[r], 401, "NO_ACCESS_TOKEN")
            /\ NoStoreAccess(req[r])

C8_Witness ==
    \E r \in Reqs :
        /\ Done(r)
        /\ NoTokenSent(req[r])
        /\ req[r].pair = "usable"
        /\ req[r].code = "NO_ACCESS_TOKEN"

\* C9: when the session check finds no row that is active, has access-expiry
\* in the future and holds the active token, the request ends with
\* SessionInvalid (401); next() is called only after a check that found one.
C9_SessionCheckGuards ==
    \A r \in Reqs :
        /\ (Done(r) /\ req[r].rowAtCheck = "missing") =>
               Failed(req[r], 401, "SESSION_INVALID")
        /\ req[r].nextCalled => req[r].rowAtCheck = "found"

C9_Witness ==
    \E r \in Reqs :
        /\ Done(r)
        /\ Verifies(req[r])
        /\ req[r].invalidatedAccess
        /\ req[r].rowAtCheck = "missing"
        /\ req[r].code = "SESSION_INVALID"

\* invalidateSession on store S: the rows holding the token are set inactive,
\* nothing else changes, and a second application changes nothing
InvalidateEffect(S, t) ==
    LET R == InvalidateRows(S, t)
    IN /\ Len(R) = Len(S)
       /\ \A i \in 1..Len(S) :
              R[i] = IF S[i].session_token = t
                       THEN [S[i] EXCEPT !.is_active = FALSE]
                       ELSE S[i]
       /\ InvalidateRows(R, t) = R

InvalidateEffectHolds ==
    /\ \A t \in issued \cup {GarbageToken} : InvalidateEffect(sessions, t)
    /\ \A i \in hist.invalidatedRows : ~sessions[i].is_active

\* a rotation asked with the refresh token of an invalidated row fails
InvalidatedRefreshRejected ==
    \A r \in Reqs :
        (Done(r) /\ req[r].invalidatedRefresh) =>
            /\ ~req[r].reqTokenRotated
            /\ req[r].matchAtSelect # "found"
            /\ req[r].matchAtSelect = "missing" =>
                   Failed(req[r], 401, "REFRESH_TOKEN_INVALID")

\* C10 as stated: every later request with the invalidated access token fails
C10_InvalidatedTokenFails ==
    /\ InvalidateEffectHolds
    /\ InvalidatedRefreshRejected
    /\ \A r \in Reqs : (Done(r) /\ req[r].invalidatedAccess) => ~req[r].nextCalled

\* C10: invalidateSession sets is_active = false on the rows holding the token
\* and changes nothing else, with no error when none holds it and the same
\* store after a second application; an invalidated row stays inactive and
\* never again satisfies a session check or a rotation, so a request sending
\* that access token is authenticated only through another, active row: one
\* that holds the same token value, or one rotated with its own refresh token
\* and device id.
C10_InvalidatedRowUnusable ==
    /\ InvalidateEffectHolds
    /\ InvalidatedRefreshRejected
    /\ \A r \in Reqs :
           (Done(r) /\ req[r].invalidatedAccess /\ req[r].nextCalled) =>
               \/ /\ req[r].reqTokenRotated
                  /\ req[r].pair = "usable"
                  /\ req[r].matchAtSelect = "found"
               \/ /\ ~req[r].reqTokenRotated
                  /\ Cardinality({i \in RowIds :
                                    sessions[i].session_token = req[r].presented}) >= 2

C10_Witness ==
    \E r \in Reqs :
        /\ Done(r)
        /\ hist.invalidatedRows # {}
        /\ req[r].invalidatedAccess
        /\ req[r].invalidatedRefresh
        /\ req[r].matchAtSelect = "missing"
        /\ req[r].code = "REFRESH_TOKEN_INVALID"

\* the store after a sweep at time t, stated row by row
Swept(S, t) ==
    [i \in 1..Len(S) |->
        IF S[i].refresh_expires_at <= t
        THEN [S[i] EXCEPT !.is_active = FALSE]
        ELSE S[i]]

\* a step that changes the session table and is neither a creation, nor a
\* gate step, nor an invalidation: a sweep
SweepStep ==
    /\ sessions' # sessions
    /\ rng' = rng
    /\ pc' = pc
    /\ hist' = hist

\* C11: cleanupExpiredSessions sets is_active = false on exactly the rows whose
\* refresh-expiry is at or before the current time, and leaves every other
\* row and every other field as it was.
C11_SweepFrame ==
    /\ [](CleanupRows(sessions, now) = Swept(sessions, now))
    /\ [][SweepStep => sessions' = Swept(sessions, now)]_vars

\* a row the sweep has set inactive at its refresh-expiry, next to a row that
\* is still active because its refresh-expiry is ahead
C11_Witness ==
    \E i, j \in RowIds :
        /\ ~sessions[i].is_active
        /\ i \notin hist.invalidatedRows
        /\ sessions[i].refresh_expires_at = now
        /\ sessions[j].is_active
        /\ sessions[j].refresh_expires_at > now
        /\ sessions[j].expires_at <= now

\* C12: a request in which a store query threw ends with the generic server
\* fault (500 SERVER_ERROR, "Server error"), not with an authentication code
\* and not with the fault's own message.
C12_FaultsReportedGeneric ==
    \A r \in Reqs :
        (Done(r) /\ req[r].fault) =>
            /\ req[r].status = 500
            /\ req[r].code = "SERVER_ERROR"
            /\ req[r].message = "Server error"
            /\ req[r].message # StoreFaultMessage

\* C13: whatever the reason no session matched the refresh token and device
\* id (wrong token, wrong device, refresh-expiry passed, session inactive),
\* the request gets one and the same status, code and message.
C13_RefreshFailureUniform ==
    \A r \in Reqs :
        (Done(r) /\ req[r].missCause \in {"token", "device", "expired", "inactive"}) =>
            /\ req[r].status = 401
            /\ req[r].code = "REFRESH_TOKEN_INVALID"
            /\ req[r].message = "Invalid or expired refresh token"
            /\ ~req[r].nextCalled
            /\ req[r].xAccessToken = UndefinedToken
            /\ req[r].xRefreshToken = Undefined

C13_Witness ==
    \E r \in Reqs :
        /\ Done(r)
        /\ req[r].missCause = "expired"
        /\ req[r].code = "REFRESH_TOKEN_INVALID"

\* a role column as a token claim: an empty column is an absent claim
Verbatim(col) == IF col = SqlNull THEN Undefined ELSE col

\* C14: the identity resolved after a rotation is, verbatim, the user id,
\* user type and admin role of the session row's role snapshot, an absent
\* admin role included.
C14_ClaimsAreSnapshot ==
    \A r \in Reqs :
        (Done(r) /\ req[r].nextCalled /\ req[r].reqTokenRotated) =>
            \E i \in RowIds :
                /\ sessions[i].session_token = req[r].xAccessToken
                /\ req[r].user = [userId |-> sessions[i].user_id,
                                  userType |-> Verbatim(sessions[i].user_type),
                                  adminRole |-> Verbatim(sessions[i].admin_role)]

\* the rotation's UPDATE ran during the request
RotationOccurred(q) == q.pairPersisted # "none"

\* the response carries a token pair in x-access-token / x-refresh-token
PairSurfaced(q) == q.xAccessToken # UndefinedToken \/ q.xRefreshToken # Undefined

\* C15: a finished request is Authenticated with the rotation flag and the
\* new pair in its response headers exactly when a rotation occurred during
\* it; a request that did not rotate, or did not end Authenticated, carries
\* no pair and no flag.
C15_PairIffRotation ==
    \A r \in Reqs :
        Done(r) =>
            /\ RotationOccurred(req[r]) <=>
                   (req[r].nextCalled /\ req[r].reqTokenRotated /\ PairSurfaced(req[r]))
            /\ ~req[r].nextCalled =>
                   (~PairSurfaced(req[r]) /\ ~req[r].reqTokenRotated)

\* no admin role is present in an identity: the property is missing, null or ""
NoAdminRole(user) == user.adminRole \in {Undefined, SqlNull, EmptyString}

\* C16: requireAdmin rejects (403, admin access required) exactly when the
\* identity has no admin role, requireRole(allowed) rejects (403, insufficient
\* permissions) exactly when the admin role is absent or not in the allowed
\* set, and neither reads or writes the store.
C16_RoleChecks ==
    /\ [](/\ out.op = "requireAdmin" =>
               /\ out.result.next <=> ~NoAdminRole(out.user)
               /\ ~out.result.next =>
                      out.result = [next |-> FALSE, status |-> 403,
                                    message |-> "Admin access required"]
          /\ out.op = "requireRole" =>
               /\ out.result.next <=>
                      (~NoAdminRole(out.user) /\ out.user.adminRole \in out.allowedRoles)
               /\ ~out.result.next =>
                      out.result = [next |-> FALSE, status |-> 403,
                                    message |-> "Insufficient permissions"])
    /\ [][out' # out => UNCHANGED <<profiles, sessions, keys, questions>>]_vars

C16_Witness ==
    /\ out.op = "requireRole"
    /\ out.user.adminRole = "analyst"
    /\ out.allowedRoles = {"manager", "admin"}
    /\ ~out.result.next

\* a createSession call has just returned or thrown
CreateSessionStep == out' # out /\ out'.op = "createSession"

\* C17: createSession for a user without a profile row fails with 'User not
\* found' and inserts nothing; for a user with one it appends one active row
\* holding the given tokens, the profile's user type and admin role, created
\* and last active now, with access-expiry 60 s and refresh-expiry 120 s
\* (the configured 1m and 2m) from now.
C17_CreateSession ==
    [][CreateSessionStep =>
          IF ~profiles[out'.userId].exists
            THEN /\ out'.error = "User not found"
                 /\ sessions' = sessions
            ELSE /\ out'.error = ""
                 /\ Len(sessions') = Len(sessions) + 1
                 /\ SubSeq(sessions', 1, Len(sessions)) = sessions
                 /\ LET row == sessions'[Len(sessions')]
                    IN /\ row.is_active
                       /\ row.user_id = out'.userId
                       /\ row.session_token = out'.accessToken
                       /\ row.refresh_token = out'.refreshToken
                       /\ row.user_type = profiles[out'.userId].user_type
                       /\ row.admin_role = profiles[out'.userId].admin_role
                       /\ row.created_at = now
                       /\ row.last_activity = now
                       /\ row.expires_at = now + 60
                       /\ row.refresh_expires_at = now + 120]_vars

\* a call for a user without a profile row has failed, next to a row
\* inserted later than the start for an administrator
C17_Witness ==
    /\ out.op = "createSession"
    /\ out.error = "User not found"
    /\ ~profiles[out.userId].exists
    /\ \E i \in RowIds :
           /\ sessions[i].admin_role = "admin"
           /\ sessions[i].created_at > 0

\* a verifySecurityAnswers call has just returned or thrown
Verified == out.op = "verifySecurityAnswers"

\* entry e is right for user u under key row k: the id is one of u's
\* questions, whose answer was encrypted to that key, equals e's answer
\* character for character and carries its own hash
EntryPasses(k, u, e) ==
    /\ k # 0
    /\ \E i \in 1..Len(questions) :
          /\ questions[i].id = e.questionId
          /\ questions[i].user_id = u
          /\ questions[i].encrypted_answer.b64.oaep = keys[k].encrypted_private_key.b64.pair
          /\ questions[i].encrypted_answer.b64.plain = e.answer
          /\ questions[i].signature = sha256(e.answer)

\* every reordering of an answers list
Reordered(answers) ==
    {[i \in 1..Len(answers) |-> answers[p[i]]] : p \in Permutations(1..Len(answers))}

\* C18: verifySecurityAnswers succeeds exactly when the user has a key row and
\* every supplied entry passes (so one correct and one incorrect entry fail in
\* either order), every reordering of the list succeeds or fails alike, and
\* the call changes no table.
C18_AllOrNothing ==
    /\ [](Verified =>
            /\ out.error = "" <=>
                  /\ out.keyRow # 0
                  /\ \A i \in 1..Len(out.answers) :
                        EntryPasses(out.keyRow, out.userId, out.answers[i])
            /\ \A other \in Reordered(out.answers) :
                  verifySecurityAnswers(keys, questions, out.userId, other, out.keyRow).error = ""
                      <=> out.error = "")
    /\ [][out' # out /\ out'.op = "verifySecurityAnswers"
             => UNCHANGED <<keys, questions, profiles, sessions>>]_vars

\* a correct entry followed by one wrong only in letter case has failed
C18_Witness ==
    /\ Verified
    /\ Len(out.answers) = 2
    /\ EntryPasses(out.keyRow, out.userId, out.answers[1])
    /\ ~EntryPasses(out.keyRow, out.userId, out.answers[2])
    /\ out.answers[2].questionId = out.answers[1].questionId
    /\ out.error = "Answer mismatch"
    /\ out.status = 400

\* the answer addSecurityQuestion stored under question row i
StoredAnswer(i) == questions[i].encrypted_answer.b64.plain

\* the call verified one entry, naming question row i of the calling user
SingleEntryFor(i) ==
    /\ Verified
    /\ Len(out.answers) = 1
    /\ out.answers[1].questionId = questions[i].id
    /\ out.userId = questions[i].user_id

\* C19: once addSecurityQuestion(u, q, a) has stored question i, a
\* verifySecurityAnswers(u, [{questionId: i, answer}]) call succeeds when the
\* answer is a and fails with 'Answer mismatch' when it is any other string,
\* one differing only in letter case included.
C19_StoredAnswerVerifies ==
    \A i \in 1..Len(questions) :
        SingleEntryFor(i) =>
            IF out.answers[1].answer = StoredAnswer(i)
              THEN out.error = ""
              ELSE out.error = "Answer mismatch"

\* id is a question stored for user u
OwnQuestion(u, id) ==
    \E j \in 1..Len(questions) : questions[j].id = id /\ questions[j].user_id = u

\* the positions of the call's entries whose id is not a question of the caller
ForeignEntries ==
    {i \in 1..Len(out.answers) : ~OwnQuestion(out.userId, out.answers[i].questionId)}

\* C20 as stated: a verifySecurityAnswers call with an entry whose id is not a
\* question of the user fails with 'Invalid question ID'.
C20_ForeignIdIsInvalid ==
    (Verified /\ ForeignEntries # {}) => out.error = "Invalid question ID"

\* C20, amended: such a call always fails; with 'User keys not found' when the
\* user has no key row, with 'Invalid question ID' when the user has one and
\* every entry before the first such id passes, and otherwise with the
\* failure of an earlier entry; and no call decrypts a stored answer of
\* another user.
C20_ForeignIdFails ==
    Verified =>
        /\ \A id \in out.decrypted : OwnQuestion(out.userId, id)
        /\ ForeignEntries # {} =>
              LET first == CHOOSE i \in ForeignEntries : \A j \in ForeignEntries : i <= j
                  earlierPass == \A j \in 1..(first - 1) :
                                     EntryPasses(out.keyRow, out.userId, out.answers[j])
              IN /\ out.error # ""
                 /\ out.status = 400
                 /\ out.keyRow = 0 <=> out.error = "User keys not found"
                 /\ (out.keyRow # 0 /\ earlierPass) <=> out.error = "Invalid question ID"

\* a passing entry followed by the id of another user's question: the call
\* failed on the second entry having decrypted only the caller's own answer
C20_Witness ==
    /\ Verified
    /\ Len(out.answers) = 2
    /\ EntryPasses(out.keyRow, out.userId, out.answers[1])
    /\ \E j \in 1..Len(questions) :
          /\ questions[j].id = out.answers[2].questionId
          /\ questions[j].user_id # out.userId
    /\ out.error = "Invalid question ID"
    /\ out.decrypted = {out.answers[1].questionId}

\* the user of the last call has no key pair row
NoKeys == KeyRows(keys, out.userId) = {}

\* C21: for a user without a key pair row addSecurityQuestion throws 'User
\* keys not found' and stores no question row, and verifySecurityAnswers
\* throws 'User keys not found' without running the question SELECT or
\* decrypting anything.
C21_KeysNotFound ==
    /\ []((out.op = "addSecurityQuestion" /\ NoKeys) =>
            /\ out.message = "User keys not found"
            /\ out.status = 500
            /\ out.id = 0)
    /\ []((Verified /\ NoKeys) =>
            /\ out.error = "User keys not found"
            /\ out.questionQueries = 0
            /\ out.decrypted = {})
    /\ [][(out' # out /\ out'.op = "addSecurityQuestion" /\ KeyRows(keys, out'.userId) = {})
             => questions' = questions]_vars

\* a user without keys asked to verify an answer to a question another user
\* has stored
C21_Witness ==
    /\ Verified
    /\ NoKeys
    /\ Len(out.answers) >= 1
    /\ \E j \in 1..Len(questions) : questions[j].id = out.answers[1].questionId
    /\ out.error = "User keys not found"

\* C22: every user has at most one key pair row, and a registerKeys call for
\* a user who has one fails and leaves the keys table as it was.
C22_OneKeyPairPerUser ==
    /\ \A u \in Users : Cardinality(KeyRows(keys, u)) <= 1
    /\ (out.op = "registerKeys" /\ out.status = 200)
          => Cardinality(KeyRows(keys, out.userId)) = 1

\* the stored rows entry e of the call names: a question of the calling user
\* with e's id
NamedRows(e) ==
    {j \in 1..Len(questions) :
        questions[j].id = e.questionId /\ questions[j].user_id = out.userId}

\* the call decrypted the stored answer of row j and it equals e's answer
DecryptsTo(j, e) ==
    /\ out.keyRow # 0
    /\ questions[j].encrypted_answer.b64.oaep = keys[out.keyRow].encrypted_private_key.b64.pair
    /\ questions[j].encrypted_answer.b64.plain = e.answer

\* the loop got to entry i: every entry before it passed
Reached(i) ==
    \A j \in 1..(i - 1) : EntryPasses(out.keyRow, out.userId, out.answers[j])

\* an addSecurityQuestion call has just stored a row
Added == out' # out /\ out'.op = "addSecurityQuestion" /\ out'.status = 200

\* C23: a verifySecurityAnswers call throws 'Signature mismatch' exactly when
\* the entry it got to equals the decrypted stored answer and the SHA-256 hash
\* of that plaintext differs from the stored signature; a row written by
\* addSecurityQuestion carries the hash of its plaintext answer, and no
\* operation of the service rewrites a stored row.
C23_SignatureMismatch ==
    /\ [](Verified =>
            (out.error = "Signature mismatch" <=>
                \E i \in 1..Len(out.answers) : \E j \in NamedRows(out.answers[i]) :
                    /\ Reached(i)
                    /\ DecryptsTo(j, out.answers[i])
                    /\ questions[j].signature
                          # sha256(questions[j].encrypted_answer.b64.plain)))
    /\ [][Added =>
            LET row == questions'[Len(questions')]
            IN /\ Len(questions') = Len(questions) + 1
               /\ row.id = out'.id
               /\ row.encrypted_answer.b64.plain = out'.answer
               /\ row.signature = sha256(out'.answer)]_vars
    /\ [][out'.op # "substitute" =>
            \A i \in 1..Len(questions) : questions'[i] = questions[i]]_vars

\* after a correct first entry, the second entry named a question whose
\* signature had been replaced and whose stored answer it matched
C23_Witness ==
    /\ Verified
    /\ Len(out.answers) = 2
    /\ EntryPasses(out.keyRow, out.userId, out.answers[1])
    /\ \E j \in NamedRows(out.answers[2]) : DecryptsTo(j, out.answers[2])
    /\ out.error = "Signature mismatch"

\* C24: the result of getSecurityQuestions(u) has one {id, question} record
\* for each question row of u and nothing else: no record has another field,
\* none comes from another user's row, and the stored answers do not enter it.
C24_QuestionsOnly ==
    out.op = "getSecurityQuestions" =>
        /\ \A r \in out.questions :
              /\ DOMAIN r = {"id", "question"}
              /\ \E j \in 1..Len(questions) :
                    /\ questions[j].user_id = out.userId
                    /\ questions[j].id = r.id
                    /\ questions[j].question = r.question
        /\ \A j \in 1..Len(questions) :
              questions[j].user_id = out.userId
                  => \E r \in out.questions : r.id = questions[j].id
        /\ Cardinality(out.questions)
              = Cardinality({j \in 1..Len(questions) : questions[j].user_id = out.userId})

\* the questions of a user were listed while another user had one stored
C24_Witness ==
    /\ out.op = "getSecurityQuestions"
    /\ out.questions # {}
    /\ \E j \in 1..Len(questions) : questions[j].user_id # out.userId

\* C25: decryptSensitiveData(encryptSensitiveData(x)) is x for every
\* non-empty string x, strings containing ':' included.
C25_RoundTrip ==
    (out.op = "roundtrip" /\ out.text # <<>>) =>
        /\ ~out.raised
        /\ out.value = Plain(out.text)

\* a text is well formed when every surrogate in it is half of a pair
RECURSIVE WellFormed(_)
WellFormed(text) ==
    IF text = <<>> THEN TRUE
    ELSE IF text[1] = "HI"
      THEN Len(text) >= 2 /\ text[2] = "LO" /\ WellFormed(SubSeq(text, 3, Len(text)))
    ELSE text[1] # "LO" /\ WellFormed(Tail(text))

\* C25, amended: the round trip returns x for every non-empty x in which
\* every surrogate is half of a pair, strings containing ':' included; for
\* an x with an unpaired surrogate it returns a different string of the same
\* length, and it never raises.
C25_RoundTripWellFormed ==
    (out.op = "roundtrip" /\ out.text # <<>>) =>
        /\ ~out.raised
        /\ WellFormed(out.text) => out.value = Plain(out.text)
        /\ ~WellFormed(out.text) =>
              /\ out.value # Plain(out.text)
              /\ DOMAIN out.value = {"type", "units"}
              /\ Len(out.value.units) = Len(out.text)
              /\ \A i \in 1..Len(out.text) :
                    out.value.units[i] = out.text[i] \/ out.value.units[i] = "FFFD"

\* a text with the envelope's delimiter in it came back from the round trip
C25_Witness ==
    /\ out.op = "roundtrip"
    /\ \E i \in 1..Len(out.text) : out.text[i] = ":"
    /\ Len(out.encrypted.fields) = 3
    /\ out.value = Plain(out.text)

\* v is an envelope as encryptSensitiveData writes one: a string of exactly
\* three ':'-separated fields, each made of hex digits only, the first not
\* empty
WellFormedEnvelope(v) ==
    /\ v.type = "string"
    /\ Len(v.fields) = 3
    /\ \A i \in 1..3 : v.fields[i].rest = ""
    /\ v.fields[1].hex # NoBytes

\* the first three fields of v decode to an IV, a tag and a ciphertext such
\* that the tag is the one AES-256-GCM computes under the service's key
Authentic(v) ==
    /\ v.type = "string"
    /\ Len(v.fields) >= 3
    /\ v.fields[1].hex # NoBytes
    /\ v.fields[2].hex = gcmTag(ENCRYPTION_KEY, v.fields[1].hex, "vottery", v.fields[3].hex)

\* C26 as stated: decryptSensitiveData never raises, and returns its input
\* unchanged when the input is not a well-formed envelope or does not
\* authenticate.
C26_FailsOpen ==
    out.op = "decrypted" =>
        /\ ~out.raised
        /\ (~WellFormedEnvelope(out.encrypted) \/ ~Authentic(out.encrypted))
              => out.value = out.encrypted

\* C26, amended: decryptSensitiveData never raises; it returns its input
\* unchanged unless the input is a string whose first three ':'-separated
\* fields decode, as hex read up to the first other character, to an IV, tag
\* and ciphertext that authenticate, and then it returns the plaintext, also
\* when further fields or characters follow.
C26_FailsOpenUnlessAuthentic ==
    out.op = "decrypted" =>
        /\ ~out.raised
        /\ ~Authentic(out.encrypted) => out.value = out.encrypted
        /\ Authentic(out.encrypted) =>
              out.value = Plain(utf8Decode(out.encrypted.fields[3].hex.plain))

\* an envelope carrying the tag of another envelope came back unchanged
C26_Witness ==
    /\ out.op = "decrypted"
    /\ WellFormedEnvelope(out.encrypted)
    /\ ~Authentic(out.encrypted)
    /\ \E e \in Envelopes : e.fields[2] = out.encrypted.fields[2]
    /\ out.value = out.encrypted

\* the number a string of decimal digits denotes, read from the left
RECURSIVE Decimal(_, _)
Decimal(ds, acc) ==
    IF ds = <<>> THEN acc
    ELSE Decimal(Tail(ds), 10 * acc
                    + (CASE Head(ds) = "0" -> 0 [] Head(ds) = "1" -> 1 [] Head(ds) = "9" -> 9))

\* seconds in one unit
UnitSeconds(u) ==
    CASE u = "s" -> 1 [] u = "m" -> 60 [] u = "h" -> 3600 [] u = "d" -> 86400

\* e is one or more decimal digits followed by exactly one unit letter
IsDuration(e) ==
    /\ Len(e) >= 2
    /\ \A i \in 1..(Len(e) - 1) : e[i] \in {"0", "1", "9"}
    /\ e[Len(e)] \in {"s", "m", "h", "d"}

\* C27: parseExpiryToSeconds returns N, 60*N, 3600*N or 86400*N for a string
\* made of the decimal integer N and one unit letter s, m, h or d, and throws
\* 'Invalid expiry format' for every other string.
C27_ParseExpiry ==
    out.op = "parsed" =>
        IF IsDuration(out.expiry)
          THEN /\ out.error = ""
               /\ out.seconds = Decimal(SubSeq(out.expiry, 1, Len(out.expiry) - 1), 0)
                                   * UnitSeconds(out.expiry[Len(out.expiry)])
          ELSE out.error = InvalidExpiry

\* a two-digit number of hours was parsed
C27_Witness ==
    /\ out.op = "parsed"
    /\ out.expiry = <<"1", "9", "h">>
    /\ out.seconds = 68400

\* C28: in every session row the access-expiry is not later than the
\* refresh-expiry, whatever durations are configured.
C28_AccessBeforeRefresh ==
    \A i \in RowIds : sessions[i].expires_at <= sessions[i].refresh_expires_at

\* the same with the two settings left at their defaults
AccessBeforeRefreshByDefault ==
    env = DefaultEnv => C28_AccessBeforeRefresh

\* C29: no two active session rows hold the same access token, so the
\* session check of an authenticated request matches exactly one row.
C29_OneRowPerToken ==
    \A i \in RowIds : \A j \in RowIds :
        (i # j /\ sessions[i].is_active /\ sessions[j].is_active)
            => sessions[i].session_token # sessions[j].session_token

\* request r's rotation UPDATE is the step being taken
RotationStep(r) == pc[r] = "rotateUpdate" /\ pc'[r] # "rotateUpdate"

\* the columns a rotation has no business with
KeptColumns(row) ==
    <<row.id, row.user_id, row.device_id, row.user_type, row.admin_role,
      row.ip_address, row.user_agent, row.created_at, row.is_active>>

\* C30: the UPDATE of a rotation leaves the number of rows and every row but
\* the matched one as they were; in the matched row it writes the new access
\* token, the new refresh token, a generation identifier different from the
\* previous one, the two expiries counted from now and last-activity = now,
\* and leaves id, user id, device id, role snapshot, origin metadata, created
\* timestamp and active flag as they were.
C30_RotationFrame ==
    [][\A r \in Reqs :
          RotationStep(r) =>
              /\ Len(sessions') = Len(sessions)
              /\ \A i \in RowIds :
                    IF sessions[i].id = req[r].sessionId
                      THEN /\ KeptColumns(sessions'[i]) = KeptColumns(sessions[i])
                           /\ sessions'[i].jwt_token_id # sessions[i].jwt_token_id
                           /\ sessions'[i].session_token = req[r].newAccessToken
                           /\ sessions'[i].refresh_token = req[r].newRefreshToken
                           /\ sessions'[i].refresh_token # sessions[i].refresh_token
                           /\ sessions'[i].expires_at = now + 60
                           /\ sessions'[i].refresh_expires_at = now + 120
                           /\ sessions'[i].last_activity = now
                      ELSE sessions'[i] = sessions[i]]_vars

\* a rotation has rewritten one of two rows: the other still holds what its
\* creation wrote
C30_Witness ==
    /\ Len(sessions) = 2
    /\ \E r \in Reqs :
          /\ req[r].pairPersisted = "found"
          /\ \E i \in RowIds : \E j \in RowIds :
                /\ i # j
                /\ sessions[i].id = req[r].sessionId
                /\ sessions[i].session_token = req[r].newAccessToken
                /\ sessions[i].last_activity > sessions[i].created_at
                /\ sessions[j].last_activity = sessions[j].created_at
                /\ sessions[j].jwt_token_id # sessions[i].jwt_token_id


\* ------------------------------------------------------------ session lifecycle
\* the rotation UPDATE of request q found its row already deactivated
RacedWithInvalidation(q) == q.rowAtUpdate = "inactive"

\* no step removes a row or re-activates one
LifecycleStep ==
    /\ Len(sessions') >= Len(sessions)
    /\ \A i \in RowIds :
          /\ sessions'[i].id = sessions[i].id
          /\ ~sessions[i].is_active => ~sessions'[i].is_active

\* C31: no operation deletes a session row, a row that is inactive never becomes
\* active again (a rotation whose UPDATE follows an invalidation included), and
\* a request whose rotation raced with an invalidation is not authenticated
C31_LifecycleMonotonic ==
    /\ [](\A r \in Reqs : Done(r) /\ RacedWithInvalidation(req[r]) => ~req[r].nextCalled)
    /\ [][LifecycleStep]_vars

\* ------------------------------------------------------------ terminal outcomes
\* the error responses of the gate: status and code
ErrorOutcomes ==
    {<<401, "NO_ACCESS_TOKEN">>, <<403, "ACCESS_TOKEN_INVALID">>,
     <<401, "TOKEN_EXPIRED_NO_REFRESH">>, <<401, "REFRESH_TOKEN_INVALID">>,
     <<401, "SESSION_INVALID">>, <<500, "SERVER_ERROR">>}

Rejected(q) == <<q.status, q.code>> \in ErrorOutcomes /\ ~q.nextCalled
Authenticated(q) == q.nextCalled /\ q.status = 0 /\ q.code = ""
Pending(q) == ~q.nextCalled /\ q.status = 0 /\ q.code = ""

\* the outcome of request r is written by this step
OutcomeStep(r) ==
    \/ req'[r].status # req[r].status
    \/ req'[r].code # req[r].code
    \/ req'[r].nextCalled # req[r].nextCalled

\* C32: a gate request ends in exactly one outcome: one error response with one
\* of the six codes and no next(), or next() and no error response; while it runs
\* it has neither, the outcome is written once, by the step that ends it, and a
\* running request always has a step to take
C32_OneTerminalOutcome ==
    /\ [](\A r \in Reqs :
            /\ IF Done(r)
                 THEN Rejected(req[r]) # Authenticated(req[r])
                 ELSE Pending(req[r])
            /\ pc[r] \notin {"idle", "done"} /\ rng < MaxRandom => ENABLED GateSteps(r))
    /\ [][\A r \in Reqs :
            OutcomeStep(r) => \/ pc[r] # "done" /\ pc'[r] = "done" /\ Pending(req[r])
                              \/ pc[r] = "done" /\ pc'[r] = "idle"]_vars

C32_Witness ==
    \E r \in Reqs :
        /\ Done(r)
        /\ req[r].status = 500
        /\ req[r].code = "SERVER_ERROR"
        /\ req[r].xAccessToken # UndefinedToken
        /\ ~req[r].nextCalled

\* ------------------------------------------------------------ last activity
\* request r takes this step
StepOf(r) == pc[r] \notin {"done"} /\ pc'[r] # pc[r]

\* request r is authenticated by this step
AuthenticatedStep(r) == StepOf(r) /\ req'[r].nextCalled

\* request r has not run its rotation UPDATE and does not end authenticated here
UnrotatedStep(r) ==
    /\ StepOf(r)
    /\ req'[r].rowAtUpdate = "none"
    /\ \/ pc'[r] = "sessionCheck"
       \/ /\ pc'[r] = "done"
          /\ req'[r].code \in {"NO_ACCESS_TOKEN", "ACCESS_TOKEN_INVALID",
                               "TOKEN_EXPIRED_NO_REFRESH", "SESSION_INVALID"}

\* C33: when a request is authenticated, a row holding its active access token
\* has last_activity set to the current time; every step of a request that ends
\* with NO_ACCESS_TOKEN, ACCESS_TOKEN_INVALID, TOKEN_EXPIRED_NO_REFRESH or
\* SESSION_INVALID without a rotation UPDATE leaves the session rows as they are
C33_TouchBeforeNext ==
    [][\A r \in Reqs :
          /\ AuthenticatedStep(r) =>
                \E i \in RowIds : /\ sessions'[i].session_token = req[r].activeAccessToken
                                  /\ sessions'[i].last_activity = now
          /\ UnrotatedStep(r) => sessions' = sessions]_vars

\* ------------------------------------------------------------ when the gate rotates
\* rotateRefreshToken has been called in request r
RotateCalled(r) ==
    \/ pc[r] \in {"rotateSelect", "rotateUpdate"}
    \/ req[r].matchAtSelect # "none"
    \/ req[r].rowAtUpdate # "none"

\* C34: rotateRefreshToken is called only in a request whose access token
\* failed verification as expired and that carries a refresh token and a device
\* id; it is entered from the start of the handler only, so at most once per
\* request; a request whose access token verifies never calls it, whatever
\* refresh token and device id it carries
C34_RotateOnlyWhenExpired ==
    /\ [](\A r \in Reqs :
            /\ RotateCalled(r) => Expired(req[r]) /\ req[r].pair # "absent"
            /\ pc[r] # "idle" /\ Verifies(req[r]) =>
                  ~RotateCalled(r) /\ ~req[r].tokenRotated /\ ~req[r].reqTokenRotated)
    /\ [][\A r \in Reqs :
            /\ pc'[r] = "rotateSelect" /\ pc[r] # "rotateSelect" => pc[r] = "idle"
            /\ pc[r] = "rotateSelect" /\ pc'[r] # pc[r] => pc'[r] \in {"rotateUpdate", "done"}
            /\ pc[r] = "rotateUpdate" /\ pc'[r] # pc[r] => pc'[r] \in {"sessionCheck", "done"}]_vars

C34_Witness ==
    \E r \in Reqs :
        /\ Done(r)
        /\ Verifies(req[r])
        /\ req[r].pair = "usable"
        /\ req[r].nextCalled
        /\ ~RotateCalled(r)
        /\ req[r].queries = 2

\* ------------------------------------------------------------ re-verification
\* the user id of the row request r is rotating
RotatedUser(r) ==
    CHOOSE u \in Users \cup {0} :
        \/ \E i \in RowIds : sessions[i].id = req[r].sessionId /\ sessions[i].user_id = u
        \/ u = 0 /\ \A i \in RowIds : sessions[i].id # req[r].sessionId

\* C35: when rotateRefreshToken returns inside the gate, verifying the new
\* access token succeeds and decodes to the user id of the rotated row, for
\* every access duration parseExpiryToSeconds accepts
C35_ReverifySucceeds ==
    [][\A r \in Reqs :
          RotationStep(r) =>
              /\ pc'[r] = "sessionCheck"
              /\ req'[r].tokenRotated
              /\ req'[r].decoded.userId = RotatedUser(r)]_vars

\* ------------------------------------------------------------ resolved identity
\* request r's session SELECT finds a row in this step
CheckPassesStep(r) == pc[r] = "sessionCheck" /\ pc'[r] = "touch"

\* C36: the session check of a request that goes on to be authenticated finds
\* an active, unexpired row holding the active access token whose user_id is the
\* user id decoded from that token; the identity attached to the request carries
\* that user id, and every row holding the active token belongs to that user
C36_ResolvedUserOwnsRow ==
    [][\A r \in Reqs :
          /\ CheckPassesStep(r) =>
                \E i \in RowIds : /\ LiveAccessRow(i, req[r].activeAccessToken)
                                  /\ sessions[i].user_id = req[r].decoded.userId
          /\ AuthenticatedStep(r) =>
                /\ req'[r].user.userId = req[r].decoded.userId
                /\ req[r].user = NoClaims
                /\ \A i \in RowIds :
                      sessions[i].session_token = req[r].activeAccessToken =>
                          sessions[i].user_id = req'[r].user.userId]_vars

C36_Witness ==
    \E r \in Reqs :
        /\ Done(r)
        /\ req[r].nextCalled
        /\ req[r].reqTokenRotated
        /\ req[r].user.userId = 2
        /\ \E i \in RowIds : /\ sessions[i].session_token = ActiveToken(req[r])
                             /\ sessions[i].is_active
                             /\ sessions[i].user_id = 2
        /\ \E i \in RowIds : sessions[i].user_id = 1

\* ------------------------------------------------------------ sessions without a device
\* device_id as a client can send it: a header is a string, a body field may
\* also be null
SentDevices == DeviceInputs \cup {EmptyString, SqlNull}

NoDeviceStoreNext ==
    \/ \E u \in Users, d \in DeviceIds \cup {Undefined} : CreateUser(u, d)
    \/ Tick

\* logins with and without a device id, one request at a time
NextNoDevice ==
    \/ Settled /\ NoDeviceStoreNext /\ Outside
    \/ /\ Settled
       /\ \E h \in WellFormedHeaders, rh \in WellFormedRefresh, dev \in SentDevices,
             inBody \in BOOLEAN :
               /\ dev = SqlNull => inBody
               /\ GateStart(1, h, rh, Undefined, FromHeader(dev, inBody), FromBody(dev, inBody))
       /\ Outside
    \/ Settled /\ GateSteps(1) /\ Outside
    \/ RequestEnd(1) /\ Outside

SpecNoDevice == Init /\ [][NextNoDevice]_vars

\* row i was created without a device id
NoDeviceRow(i) == sessions[i].device_id = SqlNull

\* request r's rotation SELECT is the step being taken
RotateSelectStep(r) == pc[r] = "rotateSelect" /\ pc'[r] # "rotateSelect"

\* C37: a session row stored with a NULL device id is never rotated: a rotation
\* with its refresh token ends in REFRESH_TOKEN_INVALID and changes no row, a
\* request with its expired access token and no device id ends in
\* TOKEN_EXPIRED_NO_REFRESH, the row keeps its tokens and expiries, and no
\* session check accepts it from its first access expiry on
C37_NoDeviceNeverRotates ==
    /\ [](\A i \in RowIds :
            NoDeviceRow(i) =>
                sessions[i].expires_at =
                    sessions[i].created_at + parseExpiryToSeconds(ACCESS_TOKEN_EXPIRY))
    /\ [][/\ \A i \in RowIds :
                NoDeviceRow(i) =>
                    /\ NoDeviceRow(i)'
                    /\ sessions'[i].session_token = sessions[i].session_token
                    /\ sessions'[i].refresh_token = sessions[i].refresh_token
                    /\ sessions'[i].refresh_expires_at = sessions[i].refresh_expires_at
          /\ \A r \in Reqs :
                /\ ( /\ RotateSelectStep(r)
                     /\ \E i \in RowIds : /\ NoDeviceRow(i)
                                          /\ sessions[i].refresh_token = req[r].refreshToken )
                      => /\ pc'[r] = "done"
                         /\ req'[r].status = 401
                         /\ req'[r].code = "REFRESH_TOKEN_INVALID"
                         /\ ~req'[r].nextCalled
                         /\ sessions' = sessions
                /\ ( /\ pc[r] = "idle" /\ pc'[r] # "idle"
                     /\ Expired(req'[r])
                     /\ \E i \in RowIds : /\ NoDeviceRow(i)
                                          /\ sessions[i].session_token = req'[r].presented
                     /\ req'[r].pair = "absent" )
                      => /\ pc'[r] = "done"
                         /\ req'[r].code = "TOKEN_EXPIRED_NO_REFRESH"
                /\ CheckPassesStep(r) =>
                      \A i \in SessionCheckRows(sessions, req[r].activeAccessToken, now) :
                          NoDeviceRow(i) =>
                              now < sessions[i].created_at
                                      + parseExpiryToSeconds(ACCESS_TOKEN_EXPIRY)]_vars

C37_Witness ==
    \E r \in Reqs :
        /\ Done(r)
        /\ Expired(req[r])
        /\ req[r].code = "REFRESH_TOKEN_INVALID"
        /\ req[r].missCause = "device"
        /\ req[r].matchAtSelect = "missing"
        /\ \E i \in RowIds : /\ NoDeviceRow(i)
                             /\ sessions[i].session_token = req[r].presented
                             /\ sessions[i].is_active
                             /\ sessions[i].refresh_expires_at > now
                             /\ \A j \in RowIds : j # i => ~NoDeviceRow(j)

\* ------------------------------------------------------------ partial answers
\* the question rows of the calling user that no entry of the call names
Unanswered ==
    {j \in 1..Len(questions) :
        /\ questions[j].user_id = out.userId
        /\ \A i \in 1..Len(out.answers) : out.answers[i].questionId # questions[j].id}

\* the questions table without the rows in J
RECURSIVE Without(_, _)
Without(Q, J) ==
    IF Q = <<>> THEN <<>>
    ELSE IF Len(Q) \in J THEN Without(SubSeq(Q, 1, Len(Q) - 1), J)
    ELSE Append(Without(SubSeq(Q, 1, Len(Q) - 1), J), Q[Len(Q)])

\* C38: verifySecurityAnswers succeeds exactly when the user has a key pair and
\* every entry of the list passes; the questions of the user that the list does
\* not name have no part in the verdict, which is the same with those rows
\* removed; an empty list succeeds for every user who has a key pair and fails
\* with 'User keys not found' for every other
C38_SuppliedEntriesOnly ==
    Verified =>
        /\ out.status = 200 <=>
              /\ ~NoKeys
              /\ \A i \in 1..Len(out.answers) :
                    EntryPasses(out.keyRow, out.userId, out.answers[i])
        /\ verifySecurityAnswers(keys, Without(questions, Unanswered), out.userId,
                                 out.answers, out.keyRow).error = out.error
        /\ out.answers = <<>> =>
              /\ ~NoKeys => out.status = 200 /\ out.error = "" /\ out.decrypted = {}
              /\ NoKeys => out.status = 400 /\ out.error = "User keys not found"

\* one of two stored questions was answered, correctly, and the call succeeded
C38_Witness ==
    /\ Verified
    /\ Len(out.answers) = 1
    /\ out.status = 200
    /\ Unanswered # {}
    /\ Cardinality({j \in 1..Len(questions) : questions[j].user_id = out.userId}) = 2

\* ------------------------------------------------------------ login claims
\* a createUser call has inserted its session row
CreateUserStep == Len(sessions') = Len(sessions) + 1

\* the token createUser signed for row i is the one the request presented
FirstToken(q, i) ==
    /\ sessions[i].user_id = q.presented.userId
    /\ sessions[i].created_at = q.presented.iat

\* C39: createUser, for a new and for an existing profile alike, appends one
\* active session row holding the token pair it hands out; the access token
\* claims are the user id, 'voter' and 'analyst' whatever the profile row says,
\* while the row's snapshot is the profile row's user type and admin role; so a
\* request authenticated with that token resolves to voter/analyst, and one
\* authenticated through a rotation resolves to the snapshot (with the
\* defaults for empty columns)
C39_LoginClaimsFixed ==
    /\ [](\A r \in Reqs :
            (Done(r) /\ req[r].nextCalled) =>
                \E i \in RowIds :
                    /\ sessions[i].user_id = req[r].user.userId
                    /\ IF req[r].reqTokenRotated
                         THEN /\ req[r].user.userType = JsOr(sessions[i].user_type, "voter")
                              /\ req[r].user.adminRole = JsOr(sessions[i].admin_role, "analyst")
                         ELSE FirstToken(req[r], i) =>
                                 /\ req[r].user.userType = "voter"
                                 /\ req[r].user.adminRole = "analyst")
    /\ [][CreateUserStep =>
            LET row == sessions'[Len(sessions')]
                u == row.user_id
            IN /\ SubSeq(sessions', 1, Len(sessions)) = sessions
               /\ row.is_active
               /\ row.session_token \in issued'
               /\ row.session_token = generateAccessToken(Claims(u, "voter", "analyst"), now)
               /\ row.refresh_token = generateRefreshToken(rng')
               /\ rng' = rng + 1
               /\ IF profiles[u].exists
                    THEN /\ profiles' = profiles
                         /\ row.user_type = profiles[u].user_type
                         /\ row.admin_role = profiles[u].admin_role
                    ELSE /\ profiles'[u] = [exists |-> TRUE, user_type |-> "voter",
                                            admin_role |-> "analyst"]
                         /\ row.user_type = "voter"
                         /\ row.admin_role = "analyst"]_vars

\* a login for an existing administrator profile was rotated: the request came
\* with voter/analyst claims and resolved to the administrator
C39_Witness ==
    \E r \in Reqs :
        /\ Done(r)
        /\ req[r].nextCalled
        /\ req[r].reqTokenRotated
        /\ req[r].presented.userType = "voter"
        /\ req[r].presented.adminRole = "analyst"
        /\ req[r].user.userType = "individual_creator"
        /\ req[r].user.adminRole = "admin"

\* ------------------------------------------------------------ the sweep and authentication
\* the times at which a later query can run
LaterTimes == {now + k * TickSeconds : k \in 0..MaxTicks}

\* the access tokens and refresh tokens a query can carry
KnownAccessTokens == issued \cup {sessions[i].session_token : i \in RowIds}
KnownRefreshTokens == {generateRefreshToken(n) : n \in 1..rng}

\* C40: cleanupExpiredSessions cannot be observed by authentication: at the
\* current time and at every later one the gate's session SELECT and the
\* rotation SELECT return the same rows for the store as it is and for the
\* store after a sweep run now, for every access token, refresh token and
\* device id
C40_SweepUnobservable ==
    LET swept == CleanupRows(sessions, now)
    IN \A t \in LaterTimes :
          /\ \A token \in KnownAccessTokens :
                SessionCheckRows(swept, token, t) = SessionCheckRows(sessions, token, t)
          /\ \A refreshToken \in KnownRefreshTokens : \A deviceId \in DeviceIds :
                RotateMatch(swept, refreshToken, deviceId, t)
                    = RotateMatch(sessions, refreshToken, deviceId, t)
====
